---- MODULE Spec2Model ----
(***************************************************************************)
(* Intent-aware retrieval and context compression (preetham3011/rag).      *)
(*                                                                         *)
(* Strings are sequences of one-character strings, so that len(), `in`,    *)
(* lower(), strip(), re.split and str.join are computed character by       *)
(* character.  Floats are exact rationals on a common integer scale:       *)
(*   - sentence scores in thousandths (score 0.2 is 200, len/1000 is len); *)
(*   - distances and intent bonuses in hundredths (0.15 is 15);            *)
(*   - intent confidences in units of 1/ConfScale.                         *)
(***************************************************************************)
EXTENDS Integers, Sequences, FiniteSets, TLC

VARIABLES
    pc,               \* position of the running call
    query,            \* detect_intent: the query string
    intent_result,    \* detect_intent: the returned dict
    metadata_list,    \* index: metadata dicts aligned with the index positions
    faiss_hits,       \* index: faiss_index.search for this query, nearest first
    intent_info,      \* compress_context argument
    top_k,            \* compress_context argument
    token_limit,      \* compress_context / apply_budget argument
    retrieved_chunks, \* compress_context local
    evidence_list,    \* compress_context local / apply_budget argument
    budget_result,    \* compress_context local / apply_budget result
    result,           \* the dict compress_context returns
    raised,           \* the exception that left the call, None when none did
    first_result,     \* the results of the earlier calls with the same arguments
    other,            \* a second compress_context call on the same index
    pages_data,       \* detect_sections argument
    current_section,  \* detect_sections local
    pages_with_sections, \* detect_sections local and return value
    api_key,          \* os.getenv("GOOGLE_API_KEY")
    model_calls,      \* calls of client.models.generate_content so far
    answer,           \* run_adaptive_rag local, None before generate_answer returns
    rag_result        \* what run_adaptive_rag returned, empty before it returns

vars == <<pc, query, intent_result, metadata_list, faiss_hits, intent_info, top_k,
          token_limit, retrieved_chunks, evidence_list, budget_result, result,
          raised, first_result, other, pages_data, current_section,
          pages_with_sections, api_key, model_calls, answer, rag_result>>

\* The variables of detect_sections and those of run_adaptive_rag.
ingestion == <<pages_data, current_section, pages_with_sections>>
answering == <<api_key, model_calls, answer, rag_result>>

None == "None"

\* No call of detect_sections.
NoIngestion ==
    /\ pages_data = <<>>
    /\ current_section = None
    /\ pages_with_sections = <<>>

\* No call of run_adaptive_rag.
NoAnswering ==
    /\ api_key = None
    /\ model_calls = 0
    /\ answer = None
    /\ rag_result = <<>>

(***************************************************************************)
(* Bounds of the model.                                                    *)
(***************************************************************************)
MaxEvidence == 3      \* apply_budget alone: longest evidence list
MaxSentenceLen == 8   \* apply_budget alone: longest sentence, in characters
MaxTokenLimit == 3    \* largest token_limit (the smallest is -1)
MaxTopK == 2          \* largest top_k
MaxPhrases == 2       \* detect_intent: phrases per query
MaxChunks == 3        \* most chunks in the index
MaxSelect == 6        \* select_evidence alone: largest limit (its top_k)
MaxPages == 3         \* detect_sections: most pages of a document

(***************************************************************************)
(* Characters and strings.                                                 *)
(***************************************************************************)
Min(a, b) == IF a <= b THEN a ELSE b

Rep(c, n) == [i \in 1..n |-> c]

RECURSIVE Sum(_, _)
Sum(f, n) == IF n = 0 THEN 0 ELSE f[n] + Sum(f, n - 1)

UpperLetters == <<"A","B","C","D","E","F","G","H","I","J","K","L","M",
                  "N","O","P","Q","R","S","T","U","V","W","X","Y","Z">>

LowerLetters == <<"a","b","c","d","e","f","g","h","i","j","k","l","m",
                  "n","o","p","q","r","s","t","u","v","w","x","y","z">>

IsUpper(c) == \E i \in 1..26 : UpperLetters[i] = c

IsDigit(c) == c \in {"0","1","2","3","4","5","6","7","8","9"}

IsSpace(c) == c \in {" ", "\n", "\t", "\r"}

LowerChar(c) ==
    IF IsUpper(c) THEN LowerLetters[CHOOSE i \in 1..26 : UpperLetters[i] = c] ELSE c

\* str.lower()
Lower(s) == [i \in 1..Len(s) |-> LowerChar(s[i])]

\* sub in s
Contains(sub, s) ==
    \E i \in 0..(Len(s) - Len(sub)) : \A j \in 1..Len(sub) : s[i + j] = sub[j]

\* re.search(r'\d', s)
HasDigit(s) == \E i \in 1..Len(s) : IsDigit(s[i])

\* str.strip()
Strip(s) ==
    LET keep == {i \in 1..Len(s) : ~IsSpace(s[i])}
    IN  IF keep = {} THEN <<>>
        ELSE LET lo == CHOOSE i \in keep : \A j \in keep : i <= j
                 hi == CHOOSE i \in keep : \A j \in keep : j <= i
             IN  SubSeq(s, lo, hi)

\* len(keyword.split()): the number of whitespace-separated words
WordCount(s) ==
    Cardinality({i \in 1..Len(s) : ~IsSpace(s[i]) /\ (i = 1 \/ IsSpace(s[i - 1]))})

\* sep.join(parts)
RECURSIVE Join(_, _)
Join(sep, parts) ==
    IF Len(parts) = 0 THEN <<>>
    ELSE IF Len(parts) = 1 THEN parts[1]
    ELSE parts[1] \o sep \o Join(sep, Tail(parts))

(***************************************************************************)
(* budget_manager.py                                                       *)
(***************************************************************************)
estimate_tokens(text) == Len(text) \div 4

\* The for loop of apply_budget from item i on, with its two accumulators.
RECURSIVE BudgetLoop(_, _, _, _, _)
BudgetLoop(evidence, limit, i, selected_evidence, tokens_used) ==
    IF i > Len(evidence)
    THEN [selected_evidence |-> selected_evidence, tokens_used |-> tokens_used,
          num_sentences |-> Len(selected_evidence)]
    ELSE LET sentence_tokens == estimate_tokens(evidence[i].sentence)
         IN  IF tokens_used + sentence_tokens <= limit
             THEN BudgetLoop(evidence, limit, i + 1,
                             Append(selected_evidence, evidence[i]),
                             tokens_used + sentence_tokens)
             ELSE [selected_evidence |-> selected_evidence,
                   tokens_used |-> tokens_used,
                   num_sentences |-> Len(selected_evidence)]

\* Mutant: the test forgets the cost of the item at hand.
RECURSIVE BudgetLoopNoCost(_, _, _, _, _)
BudgetLoopNoCost(evidence, limit, i, selected_evidence, tokens_used) ==
    IF i > Len(evidence)
    THEN [selected_evidence |-> selected_evidence, tokens_used |-> tokens_used,
          num_sentences |-> Len(selected_evidence)]
    ELSE LET sentence_tokens == estimate_tokens(evidence[i].sentence)
         IN  IF tokens_used <= limit
             THEN BudgetLoopNoCost(evidence, limit, i + 1,
                                   Append(selected_evidence, evidence[i]),
                                   tokens_used + sentence_tokens)
             ELSE [selected_evidence |-> selected_evidence,
                   tokens_used |-> tokens_used,
                   num_sentences |-> Len(selected_evidence)]

\* Mutant: an over-budget item is skipped and the loop goes on (no break).
RECURSIVE BudgetLoopSkip(_, _, _, _, _)
BudgetLoopSkip(evidence, limit, i, selected_evidence, tokens_used) ==
    IF i > Len(evidence)
    THEN [selected_evidence |-> selected_evidence, tokens_used |-> tokens_used,
          num_sentences |-> Len(selected_evidence)]
    ELSE LET sentence_tokens == estimate_tokens(evidence[i].sentence)
         IN  IF tokens_used + sentence_tokens <= limit
             THEN BudgetLoopSkip(evidence, limit, i + 1,
                                 Append(selected_evidence, evidence[i]),
                                 tokens_used + sentence_tokens)
             ELSE BudgetLoopSkip(evidence, limit, i + 1, selected_evidence, tokens_used)

\* Mutant: the loop walks the evidence from its last item to its first.
RECURSIVE BudgetLoopBackwards(_, _, _, _, _)
BudgetLoopBackwards(evidence, limit, i, selected_evidence, tokens_used) ==
    IF i > Len(evidence)
    THEN [selected_evidence |-> selected_evidence, tokens_used |-> tokens_used,
          num_sentences |-> Len(selected_evidence)]
    ELSE LET item == evidence[Len(evidence) + 1 - i]
             sentence_tokens == estimate_tokens(item.sentence)
         IN  IF tokens_used + sentence_tokens <= limit
             THEN BudgetLoopBackwards(evidence, limit, i + 1,
                                      Append(selected_evidence, item),
                                      tokens_used + sentence_tokens)
             ELSE [selected_evidence |-> selected_evidence,
                   tokens_used |-> tokens_used,
                   num_sentences |-> Len(selected_evidence)]

\* Mutant: an item is taken only while the total stays below the limit (<).
RECURSIVE BudgetLoopStrict(_, _, _, _, _)
BudgetLoopStrict(evidence, limit, i, selected_evidence, tokens_used) ==
    IF i > Len(evidence)
    THEN [selected_evidence |-> selected_evidence, tokens_used |-> tokens_used,
          num_sentences |-> Len(selected_evidence)]
    ELSE LET sentence_tokens == estimate_tokens(evidence[i].sentence)
         IN  IF tokens_used + sentence_tokens < limit
             THEN BudgetLoopStrict(evidence, limit, i + 1,
                                   Append(selected_evidence, evidence[i]),
                                   tokens_used + sentence_tokens)
             ELSE [selected_evidence |-> selected_evidence,
                   tokens_used |-> tokens_used,
                   num_sentences |-> Len(selected_evidence)]

apply_budget_strict(evidence, limit) == BudgetLoopStrict(evidence, limit, 1, <<>>, 0)

apply_budget_nocost(evidence, limit) == BudgetLoopNoCost(evidence, limit, 1, <<>>, 0)

apply_budget_skip(evidence, limit) == BudgetLoopSkip(evidence, limit, 1, <<>>, 0)

apply_budget_backwards(evidence, limit) == BudgetLoopBackwards(evidence, limit, 1, <<>>, 0)

apply_budget(evidence, limit) == BudgetLoop(evidence, limit, 1, <<>>, 0)

(***************************************************************************)
(* retrieval/intent_detector.py                                            *)
(***************************************************************************)
\* One unit of confidence is 1/ConfScale: every keyword-list size (15, 13, 9, 11)
\* and the literals 0.2 and 0.3 divide it.
ConfScale == 15 * 13 * 9 * 11 * 10

Conf(num, den) == (num * ConfScale) \div den

ResultKeywords ==
    << <<"a","c","c","u","r","a","c","y">>, <<"s","c","o","r","e">>,
       <<"r","e","s","u","l","t">>, <<"p","e","r","f","o","r","m","a","n","c","e">>,
       <<"a","c","h","i","e","v","e","d">>, <<"p","e","r","c","e","n","t","a","g","e">>,
       <<"m","e","t","r","i","c">>, <<"e","v","a","l","u","a","t","i","o","n">>,
       <<"b","e","n","c","h","m","a","r","k">>,
       <<"i","m","p","r","o","v","e","m","e","n","t">>,
       <<"p","r","e","c","i","s","i","o","n">>, <<"r","e","c","a","l","l">>, <<"f","1">>,
       <<"e","r","r","o","r"," ","r","a","t","e">>, <<"l","o","s","s">> >>

MethodKeywords ==
    << <<"h","o","w"," ","d","o","e","s">>, <<"h","o","w"," ","d","o">>,
       <<"a","r","c","h","i","t","e","c","t","u","r","e">>,
       <<"a","p","p","r","o","a","c","h">>, <<"a","l","g","o","r","i","t","h","m">>,
       <<"p","i","p","e","l","i","n","e">>, <<"m","e","t","h","o","d">>,
       <<"t","e","c","h","n","i","q","u","e">>, <<"p","r","o","c","e","s","s">>,
       <<"s","t","e","p">>, <<"p","r","o","c","e","d","u","r","e">>,
       <<"i","m","p","l","e","m","e","n","t","a","t","i","o","n">>,
       <<"d","e","s","i","g","n">>, <<"m","e","c","h","a","n","i","s","m">>,
       <<"w","o","r","k">> >>

ApiUsageKeywords ==
    << <<"p","a","r","a","m","e","t","e","r">>, <<"a","r","g","u","m","e","n","t">>,
       <<"r","e","t","u","r","n">>, <<"f","u","n","c","t","i","o","n">>,
       <<"e","x","a","m","p","l","e">>, <<"u","s","a","g","e">>, <<"s","y","n","t","a","x">>,
       <<"c","a","l","l">>, <<"i","n","v","o","k","e">>,
       <<"s","i","g","n","a","t","u","r","e">>, <<"c","o","d","e">>,
       <<"h","o","w"," ","t","o"," ","u","s","e">>,
       <<"h","o","w"," ","t","o"," ","c","a","l","l">> >>

DefinitionKeywords ==
    << <<"w","h","a","t"," ","i","s">>, <<"w","h","a","t"," ","a","r","e">>,
       <<"d","e","f","i","n","e">>, <<"d","e","f","i","n","i","t","i","o","n">>,
       <<"m","e","a","n","i","n","g"," ","o","f">>, <<"e","x","p","l","a","i","n">>,
       <<"d","e","s","c","r","i","b","e">>, <<"c","o","n","c","e","p","t"," ","o","f">>,
       <<"t","e","r","m">> >>

ComparisonKeywords ==
    << <<"c","o","m","p","a","r","e">>, <<"c","o","m","p","a","r","i","s","o","n">>,
       <<"d","i","f","f","e","r","e","n","c","e">>, <<"v","e","r","s","u","s">>, <<"v","s">>,
       <<"b","e","t","t","e","r"," ","t","h","a","n">>,
       <<"w","o","r","s","e"," ","t","h","a","n">>,
       <<"s","i","m","i","l","a","r"," ","t","o">>, <<"c","o","n","t","r","a","s","t">>,
       <<"a","d","v","a","n","t","a","g","e">>,
       <<"d","i","s","a","d","v","a","n","t","a","g","e">> >>

\* The dict intent_patterns, in its insertion order.
intent_patterns == <<
    [intent |-> "RESULT", keywords |-> ResultKeywords],
    [intent |-> "METHOD", keywords |-> MethodKeywords],
    [intent |-> "API_USAGE", keywords |-> ApiUsageKeywords],
    [intent |-> "DEFINITION", keywords |-> DefinitionKeywords],
    [intent |-> "COMPARISON", keywords |-> ComparisonKeywords] >>

Intents == {intent_patterns[p].intent : p \in 1..Len(intent_patterns)}

\* The keywords of pattern p that occur in the lower-cased query.
MatchedKeywords(p, query_lower) ==
    {k \in 1..Len(intent_patterns[p].keywords) :
        Contains(intent_patterns[p].keywords[k], query_lower)}

\* matches of the inner loop
Matches(p, query_lower) == Cardinality(MatchedKeywords(p, query_lower))

\* score of the inner loop: each matched keyword adds len(keyword.split())
RECURSIVE KeywordScore(_, _, _)
KeywordScore(p, query_lower, k) ==
    IF k = 0 THEN 0
    ELSE (IF Contains(intent_patterns[p].keywords[k], query_lower)
          THEN WordCount(intent_patterns[p].keywords[k]) ELSE 0)
         + KeywordScore(p, query_lower, k - 1)

\* intent_scores[intent] = score / len(keywords), kept for matched patterns only
NormalizedScore(p, query_lower) ==
    Conf(KeywordScore(p, query_lower, Len(intent_patterns[p].keywords)),
         Len(intent_patterns[p].keywords))

\* Mutant: the score is not doubled.
ScaleConfidenceNoDouble(normalized, keyword_count) ==
    LET confidence == Min(normalized, ConfScale)
    IN  IF keyword_count >= 2 THEN Min(confidence + Conf(2, 10), ConfScale)
        ELSE confidence

\* Mutant: the confidence is not capped at 1.0.
ScaleConfidenceNoCap(normalized, keyword_count) ==
    IF keyword_count >= 2 THEN 2 * normalized + Conf(2, 10) ELSE 2 * normalized

\* Mutant: one matched keyword already earns the +0.2 boost.
ScaleConfidenceBoostOne(normalized, keyword_count) ==
    LET confidence == Min(2 * normalized, ConfScale)
    IN  IF keyword_count >= 1 THEN Min(confidence + Conf(2, 10), ConfScale)
        ELSE confidence

\* confidence = min(score * 2, 1.0), boosted by 0.2 when keyword_count >= 2
ScaleConfidence(normalized, keyword_count) ==
    LET confidence == Min(2 * normalized, ConfScale)
    IN  IF keyword_count >= 2 THEN Min(confidence + Conf(2, 10), ConfScale)
        ELSE confidence

\* Mutant: the fallback reports no confidence at all.
FallbackZero == [intent |-> "DEFINITION", confidence |-> 0, method |-> "rule-based"]

\* The else branch: no pattern matched.
Fallback == [intent |-> "DEFINITION", confidence |-> Conf(3, 10), method |-> "rule-based"]

\* Mutant: of the keys with the largest value the last one is taken.
BestPatternLast(query_lower) ==
    LET scored == {p \in 1..Len(intent_patterns) : Matches(p, query_lower) > 0}
    IN  CHOOSE p \in scored :
            \A q \in scored :
                /\ NormalizedScore(q, query_lower) <= NormalizedScore(p, query_lower)
                /\ (NormalizedScore(q, query_lower) = NormalizedScore(p, query_lower)
                        => q <= p)

\* max(intent_scores, key=intent_scores.get): the first key, in insertion
\* order, whose value is the largest.
BestPattern(query_lower) ==
    LET scored == {p \in 1..Len(intent_patterns) : Matches(p, query_lower) > 0}
    IN  CHOOSE p \in scored :
            \A q \in scored :
                /\ NormalizedScore(q, query_lower) <= NormalizedScore(p, query_lower)
                /\ (NormalizedScore(q, query_lower) = NormalizedScore(p, query_lower)
                        => p <= q)

detect_intent(q) ==
    LET query_lower == Lower(q)
        scored == {p \in 1..Len(intent_patterns) : Matches(p, query_lower) > 0}
    IN  IF scored # {}
        THEN LET best == BestPattern(query_lower)
             IN  [intent |-> intent_patterns[best].intent,
                  confidence |-> ScaleConfidence(NormalizedScore(best, query_lower),
                                                 Matches(best, query_lower)),
                  method |-> "rule-based"]
        ELSE Fallback


\* Query phrases; a query is up to MaxPhrases of them joined by spaces.

Phrases == {
    <<"W","h","a","t"," ","a","c","c","u","r","a","c","y"," ","d","i","d"," ","t","h","e"," ","m","o","d","e","l"," ","a","c","h","i","e","v","e","?">>,
    <<"H","o","w"," ","d","o","e","s">>, <<"F","1"," ","s","c","o","r","e">>,
    <<"W","h","a","t"," ","i","s">>,
    <<"w","h","a","t"," ","a","r","e"," ","t","h","e"," ","m","e","a","n","i","n","g"," ","o","f">>,
    <<"n","e","t","w","o","r","k">>, <<"C","o","m","p","a","r","e">>,
    <<"m","e","t","h","o","d">>, <<"h","e","l","l","o">>,
    <<"p","a","r","a","m","e","t","e","r">> }


RECURSIVE SeqsUpTo(_, _)
SeqsUpTo(S, n) ==
    IF n = 0 THEN {<<>>}
    ELSE LET shorter == SeqsUpTo(S, n - 1)
         IN  shorter \cup {Append(s, x) : s \in {t \in shorter : Len(t) = n - 1}, x \in S}

Queries == {Join(<<" ">>, ps) : ps \in SeqsUpTo(Phrases, MaxPhrases)}

(***************************************************************************)
(* indexing/vector_store.py                                                *)
(***************************************************************************)
\* faiss_index.search(query_array, k): the k nearest index positions with their
\* L2 distances, nearest first.  faiss_hits is the ranking of the whole index.
FaissSearch(hits, k) == SubSeq(hits, 1, k)

\* faiss_index.ntotal
Ntotal(hits) == Len(hits)

\* faiss_index.search asked for no neighbour at all, which is what
\* min(top_k, ntotal) asks of an index without vectors: the search raises.
FaissSearchError(k) == IF k <= 0 THEN "AssertionError" ELSE None

\* Mutant: the result is metadata_list[idx] itself, not a copy of it.
MetadataAlias(pos) == pos

\* metadata_list[idx].copy(): the dict a result is built in.  0 stands for a
\* new dict; a position of metadata_list would be that entry itself.
MetadataCopy(pos) == 0

\* One pass of the loop of search_index: the dict of the r-th hit.
SearchResult(found, metadata, r) ==
    [chunk_id |-> metadata[found[r].idx + 1].chunk_id,
     page |-> metadata[found[r].idx + 1].page,
     section |-> metadata[found[r].idx + 1].section,
     text |-> metadata[found[r].idx + 1].text,
     score |-> found[r].distance,
     rank |-> r]

\* How many passes of the loop complete: metadata_list[idx] raises IndexError
\* at the first hit past the end of metadata_list.
SearchReached(found, metadata) ==
    IF \A r \in 1..Len(found) : found[r].idx + 1 <= Len(metadata)
    THEN Len(found)
    ELSE (CHOOSE r \in 1..Len(found) :
              /\ found[r].idx + 1 > Len(metadata)
              /\ \A q \in 1..(r - 1) : found[q].idx + 1 <= Len(metadata)) - 1

\* The exception that leaves search_index, None when it returns.
SearchError(hits, metadata, k) ==
    LET capped == Min(k, Ntotal(hits))
        found == FaissSearch(hits, capped)
    IN  IF FaissSearchError(capped) # None THEN FaissSearchError(capped)
        ELSE IF SearchReached(found, metadata) < Len(found) THEN "IndexError"
        ELSE None

search_index(hits, metadata, k) ==
    LET capped == Min(k, Ntotal(hits))
        found == FaissSearch(hits, capped)
    IN  [r \in 1..Len(found) |-> SearchResult(found, metadata, r)]

(***************************************************************************)
(* retrieval/retriever.py                                                  *)
(***************************************************************************)
\* sum(1 for s in symbols if s in text)
SymbolCount(symbols, text) == Cardinality({s \in symbols : Contains(s, text)})

\* Mutant: the signals are subtracted from the bonus instead of added.
calculate_intent_bonus_negated(text, section, intent) ==
    LET text_lower == Lower(text)
        section_lower == Lower(section)
    IN  IF intent = "RESULT"
        THEN 0 - (IF Contains(<<"r","e","s","u","l","t">>, section_lower) THEN 15 ELSE 0)
               - (IF HasDigit(text) THEN 10 ELSE 0)
        ELSE IF intent = "METHOD"
        THEN 0 - (IF Contains(<<"m","e","t","h","o","d">>, section_lower) THEN 15 ELSE 0)
        ELSE 0

calculate_intent_bonus(text, section, intent) ==
    LET text_lower == Lower(text)
        section_lower == Lower(section)
        bonus ==
            IF intent = "RESULT"
            THEN (IF Contains(<<"r","e","s","u","l","t">>, section_lower) THEN 15 ELSE 0)
                 + (IF HasDigit(text) THEN 10 ELSE 0)
                 + (IF Contains(<<"%">>, text) THEN 5 ELSE 0)
            ELSE IF intent = "METHOD"
            THEN (IF Contains(<<"m","e","t","h","o","d">>, section_lower) THEN 15 ELSE 0)
                 + (IF \E kw \in {<<"a","l","g","o","r","i","t","h","m">>, <<"p","i","p","e","l","i","n","e">>, <<"s","t","e","p">>} :
                          Contains(kw, text_lower)
                    THEN 5 ELSE 0)
            ELSE IF intent = "API_USAGE"
            THEN LET count == SymbolCount({<<"(">>, <<")">>, <<"=">>, <<":">>}, text)
                 IN  IF count >= 3 THEN 20
                     ELSE IF count >= 2 THEN 15
                     ELSE IF count >= 1 THEN 10
                     ELSE 0
            ELSE IF intent = "DEFINITION"
            THEN IF section_lower \in {<<"a","b","s","t","r","a","c","t">>, <<"i","n","t","r","o","d","u","c","t","i","o","n">>} THEN 20
                 ELSE IF Contains(<<"i","n","t","r","o">>, section_lower) THEN 15
                 ELSE 0
            ELSE IF intent = "COMPARISON"
            THEN IF \E kw \in {<<"c","o","m","p","a","r","e">>, <<"c","o","m","p","a","r","i","s","o","n">>, <<"d","i","f","f","e","r","e","n","c","e">>, <<"v","e","r","s","u","s">>, <<"v","s">>} :
                        Contains(kw, text_lower)
                 THEN 15 ELSE 0
            ELSE 0
    IN  Min(bonus, 30)

\* Mutant: largest key first, but items with equal keys in reversed order
\* (an ascending sort that is then reversed).
SortedDescendingLastFirst(items, KeyOf) ==
    LET n == Len(items)
        place(i) == 1 + Cardinality({j \in 1..n :
                        KeyOf[j] > KeyOf[i] \/ (KeyOf[j] = KeyOf[i] /\ j > i)})
    IN  [r \in 1..n |-> items[CHOOSE i \in 1..n : place(i) = r]]

\* Mutant: sorted without reverse=True, smallest key first.
SortedAscending(items, KeyOf) ==
    LET n == Len(items)
        place(i) == 1 + Cardinality({j \in 1..n :
                        KeyOf[j] < KeyOf[i] \/ (KeyOf[j] = KeyOf[i] /\ j < i)})
    IN  [r \in 1..n |-> items[CHOOSE i \in 1..n : place(i) = r]]

\* sorted(items, key=..., reverse=True): stable, largest key first.  KeyOf is
\* the sequence of the items' keys.
SortedDescending(items, KeyOf) ==
    LET n == Len(items)
        place(i) == 1 + Cardinality({j \in 1..n :
                        KeyOf[j] > KeyOf[i] \/ (KeyOf[j] = KeyOf[i] /\ j < i)})
    IN  [r \in 1..n |-> items[CHOOSE i \in 1..n : place(i) = r]]

\* The two loops over initial_results: score becomes similarity_score, then
\* intent_bonus and final_score are attached.
ScoreChunk(found, intent, apply_bonus) ==
    LET bonus == IF apply_bonus
                 THEN calculate_intent_bonus(found.text, found.section, intent)
                 ELSE 0
    IN  [chunk_id |-> found.chunk_id, page |-> found.page, section |-> found.section,
         text |-> found.text, rank |-> found.rank,
         similarity_score |-> 0 - found.score,
         intent_bonus |-> bonus,
         final_score |-> (0 - found.score) + bonus]

\* Mutant: the rank given by search_index is kept, not reassigned.
RankResultsStale(final_results) == final_results

\* for rank, result in enumerate(final_results, start=1): result["rank"] = rank
RankResults(final_results) ==
    [r \in 1..Len(final_results) |-> [final_results[r] EXCEPT !.rank = r]]

\* Mutant: the bonus is applied from confidence 0.3 on.
ApplyBonusAtThreshold(confidence) == confidence >= Conf(3, 10)

\* apply_bonus = confidence > 0.3
ApplyBonus(confidence) == confidence > Conf(3, 10)

\* Mutant: search_index is asked for top_k candidates, not for twice as many.
retrieve_with_intent_no_overfetch(hits, info, metadata, k) ==
    LET initial_k == k
        initial_results == search_index(hits, metadata, initial_k)
        apply_bonus == ApplyBonus(info.confidence)
        scored == [i \in 1..Len(initial_results) |->
                      ScoreChunk(initial_results[i], info.intent, apply_bonus)]
        reranked_results ==
            SortedDescending(scored, [i \in 1..Len(scored) |-> scored[i].final_score])
        final_results == SubSeq(reranked_results, 1, Min(k, Len(reranked_results)))
    IN  RankResults(final_results)

retrieve_with_intent(hits, info, metadata, k) ==
    LET initial_k == k * 2
        initial_results == search_index(hits, metadata, initial_k)
        apply_bonus == ApplyBonus(info.confidence)
        scored == [i \in 1..Len(initial_results) |->
                      ScoreChunk(initial_results[i], info.intent, apply_bonus)]
        reranked_results ==
            SortedDescending(scored, [i \in 1..Len(scored) |-> scored[i].final_score])
        final_results == SubSeq(reranked_results, 1, Min(k, Len(reranked_results)))
    IN  RankResults(final_results)

\* The exception that leaves retrieve_with_intent, None when it returns: the
\* one of its call of search_index.
RetrieveError(hits, metadata, k) == SearchError(hits, metadata, k * 2)

\* metadata_list when retrieve_with_intent is left: the entries that a result
\* dict is (none, each result being a copy) hold what the loops wrote into
\* that dict, the others are as they were.
MetadataAfterRetrieve(hits, info, metadata, k) ==
    LET initial_k == k * 2
        found == FaissSearch(hits, Min(initial_k, Ntotal(hits)))
        failed == RetrieveError(hits, metadata, k) # None
        reached == IF failed THEN SearchReached(found, metadata) ELSE Len(found)
        apply_bonus == ApplyBonus(info.confidence)
        final_results == IF failed THEN <<>>
                         ELSE retrieve_with_intent(hits, info, metadata, k)
        Scored(r) == ScoreChunk(SearchResult(found, metadata, r), info.intent, apply_bonus)
        Ranked(r) == {f \in 1..Len(final_results) :
                         final_results[f].chunk_id = Scored(r).chunk_id}
        Dict(r) == IF failed THEN SearchResult(found, metadata, r)
                   ELSE IF Ranked(r) # {} THEN final_results[CHOOSE f \in Ranked(r) : TRUE]
                   ELSE Scored(r)
        Writers(p) == {r \in 1..reached : MetadataCopy(found[r].idx + 1) = p}
    IN  [p \in 1..Len(metadata) |->
            IF Writers(p) # {} THEN Dict(CHOOSE r \in Writers(p) : TRUE)
            ELSE metadata[p]]

(***************************************************************************)
(* compression/evidence_selector.py                                        *)
(***************************************************************************)
\* The last position of the whitespace run that starts at i.
RECURSIVE RunEnd(_, _)
RunEnd(text, i) ==
    IF i < Len(text) /\ IsSpace(text[i + 1]) THEN RunEnd(text, i + 1) ELSE i

\* re.split(r'(?<=[.!?])\s+(?=[A-Z])', text): the pieces from `start` on, the
\* scan being at i.  A match is a whole whitespace run that follows a
\* terminator and is followed by an upper-case letter.
RECURSIVE SplitFrom(_, _, _)
SplitFrom(text, start, i) ==
    IF i > Len(text) THEN <<SubSeq(text, start, Len(text))>>
    ELSE IF IsSpace(text[i]) /\ i > 1 /\ text[i - 1] \in {".", "!", "?"}
    THEN LET e == RunEnd(text, i)
         IN  IF e < Len(text) /\ IsUpper(text[e + 1])
             THEN <<SubSeq(text, start, i - 1)>> \o SplitFrom(text, e + 1, e + 1)
             ELSE SplitFrom(text, start, e + 1)
    ELSE SplitFrom(text, start, i + 1)

NonBlank(s) == Strip(s) # <<>>

\* Mutant: the pieces are kept as the split left them, untrimmed.
split_into_sentences_unstripped(text) ==
    SelectSeq(SplitFrom(text, 1, 1), NonBlank)

split_into_sentences(text) ==
    LET pieces == SelectSeq(SplitFrom(text, 1, 1), NonBlank)
    IN  [i \in 1..Len(pieces) |-> Strip(pieces[i])]

\* re.match(r'^\d+\.', s)
StartsNumbered(s) ==
    \E k \in 1..(Len(s) - 1) : s[k + 1] = "." /\ \A j \in 1..k : IsDigit(s[j])

\* str.startswith(prefix)
StartsWith(s, prefix) == Len(s) >= Len(prefix) /\ SubSeq(s, 1, Len(prefix)) = prefix

ContainsAny(words, s) == \E w \in words : Contains(w, s)

score_sentence(sentence, intent) ==
    LET sentence_lower == Lower(sentence)
    IN  IF intent = "RESULT"
        THEN (IF HasDigit(sentence) THEN 200 ELSE 0)
             + (IF Contains(<<"%">>, sentence) THEN 150 ELSE 0)
             + (IF ContainsAny({<<"a","c","c","u","r","a","c","y">>, <<"f","1">>, <<"p","r","e","c","i","s","i","o","n">>, <<"r","e","c","a","l","l">>}, sentence_lower)
                THEN 200 ELSE 0)
        ELSE IF intent = "METHOD"
        THEN (IF ContainsAny({<<"s","t","e","p">>, <<"a","l","g","o","r","i","t","h","m">>, <<"p","i","p","e","l","i","n","e">>, <<"a","r","c","h","i","t","e","c","t","u","r","e">>},
                             sentence_lower)
              THEN 200 ELSE 0)
             + (IF StartsNumbered(Strip(sentence)) \/ StartsWith(sentence_lower, <<"f","i","r","s","t",",">>)
                THEN 150 ELSE 0)
        ELSE IF intent = "API_USAGE"
        THEN LET symbol_count == SymbolCount({<<"(">>, <<")">>, <<"=">>}, sentence)
             IN  (IF symbol_count >= 2 THEN 250
                  ELSE IF symbol_count >= 1 THEN 150 ELSE 0)
                 + (IF ContainsAny({<<"p","a","r","a","m","e","t","e","r">>, <<"a","r","g","u","m","e","n","t">>, <<"r","e","t","u","r","n">>}, sentence_lower)
                    THEN 150 ELSE 0)
        ELSE IF intent = "DEFINITION"
        THEN IF ContainsAny({<<"i","s"," ","d","e","f","i","n","e","d"," ","a","s">>, <<"r","e","f","e","r","s"," ","t","o">>, <<"m","e","a","n","s">>}, sentence_lower)
             THEN 300 ELSE 0
        ELSE IF intent = "COMPARISON"
        THEN IF ContainsAny({<<"c","o","m","p","a","r","e">>, <<"d","i","f","f","e","r","e","n","c","e">>, <<"v","e","r","s","u","s">>, <<"b","e","t","t","e","r">>, <<"w","o","r","s","e">>},
                            sentence_lower)
             THEN 200 ELSE 0
        ELSE 0

\* Mutant: sentences with score 0 are kept (score >= 0).
ChunkEvidenceKeepZero(chunk, intent, apply_intent_scoring) ==
    LET sentences == split_into_sentences(chunk.text)
        scored == [i \in 1..Len(sentences) |->
                      [sentence |-> sentences[i], page |-> chunk.page,
                       section |-> chunk.section,
                       score |-> IF apply_intent_scoring
                                 THEN score_sentence(sentences[i], intent)
                                 ELSE Len(sentences[i])]]
        NotNegative(item) == item.score >= 0
    IN  SelectSeq(scored, NotNegative)

\* The inner loop of select_evidence over one chunk: its scored sentences, the
\* ones with score 0 left out.
ChunkEvidence(chunk, intent, apply_intent_scoring) ==
    LET sentences == split_into_sentences(chunk.text)
        scored == [i \in 1..Len(sentences) |->
                      [sentence |-> sentences[i], page |-> chunk.page,
                       section |-> chunk.section,
                       score |-> IF apply_intent_scoring
                                 THEN score_sentence(sentences[i], intent)
                                 ELSE Len(sentences[i])]]
        Positive(item) == item.score > 0
    IN  SelectSeq(scored, Positive)

\* The outer loop of select_evidence, from chunk c on.
RECURSIVE AllEvidence(_, _, _, _)
AllEvidence(chunks, c, intent, apply_intent_scoring) ==
    IF c > Len(chunks) THEN <<>>
    ELSE ChunkEvidence(chunks[c], intent, apply_intent_scoring)
         \o AllEvidence(chunks, c + 1, intent, apply_intent_scoring)

\* Mutant: the list outlives the call, it is what the last call left.
InitialEvidenceLeftOver == evidence_list

\* Mutant: the list is shared with the call running beside this one.
InitialEvidenceShared == other.evidence_list

\* evidence_list = []
InitialEvidence == <<>>

\* Mutant: the whole sorted list is returned, not its first top_k items.
select_evidence_unlimited(chunks, info, k) ==
    LET apply_intent_scoring == info.confidence > Conf(3, 10)
        collected == InitialEvidence
                     \o AllEvidence(chunks, 1, info.intent, apply_intent_scoring)
    IN  SortedDescending(collected, [i \in 1..Len(collected) |-> collected[i].score])

select_evidence(chunks, info, k) ==
    LET apply_intent_scoring == info.confidence > Conf(3, 10)
        collected == InitialEvidence
                     \o AllEvidence(chunks, 1, info.intent, apply_intent_scoring)
        sorted == SortedDescending(collected,
                                   [i \in 1..Len(collected) |-> collected[i].score])
    IN  SubSeq(sorted, 1, Min(k, Len(sorted)))

(***************************************************************************)
(* compression/compressor.py                                               *)
(***************************************************************************)
\* Mutant: ten candidates for each chunk asked for.
EvidenceLimitTen(k) == k * 10

\* top_k=top_k * 5, the limit compress_context passes to select_evidence.
EvidenceLimit(k) == k * 5

Sentences(evidence) == [i \in 1..Len(evidence) |-> evidence[i].sentence]

\* Mutant: the sentences are joined by one newline.
BuildResultSingleNewline(budget) ==
    [compressed_context |-> Join(<<"\n">>, Sentences(budget.selected_evidence)),
     selected_evidence |-> budget.selected_evidence,
     tokens_used |-> budget.tokens_used,
     num_sentences |-> budget.num_sentences]

\* Step 4 of compress_context and its return value.
BuildResult(budget) ==
    [compressed_context |-> Join(<<"\n", "\n">>, Sentences(budget.selected_evidence)),
     selected_evidence |-> budget.selected_evidence,
     tokens_used |-> budget.tokens_used,
     num_sentences |-> budget.num_sentences]

\* Mutant: a try around the call, an empty retrieval in place of the failure.
RetrieveOutcomeSwallowed(hits, info, metadata, k) ==
    IF RetrieveError(hits, metadata, k) # None
    THEN [raised |-> None, chunks |-> <<>>]
    ELSE [raised |-> None, chunks |-> retrieve_with_intent(hits, info, metadata, k)]

\* Step 1 of compress_context, a plain call: the chunks retrieve_with_intent
\* returns, or the exception that left it and now leaves compress_context.
RetrieveOutcome(hits, info, metadata, k) ==
    IF RetrieveError(hits, metadata, k) # None
    THEN [raised |-> RetrieveError(hits, metadata, k), chunks |-> <<>>]
    ELSE [raised |-> None, chunks |-> retrieve_with_intent(hits, info, metadata, k)]

\* compress_context from its arguments to its return value, on an index that
\* retrieval does not fail on.
compress_context(hits, info, metadata, k, limit) ==
    LET retrieved == retrieve_with_intent(hits, info, metadata, k)
        evidence == select_evidence(retrieved, info, EvidenceLimit(k))
        budget == apply_budget(evidence, limit)
    IN  BuildResult(budget)

(***************************************************************************)
(* Inputs.                                                                 *)
(***************************************************************************)
\* Chunks as the chunker emits them: page, section and a text that is not
\* blank (a text shorter than chunk_size keeps its outer whitespace).
ChunkPalette == {
    [page |-> 5, section |-> <<"R","e","s","u","l","t","s">>,
     text |-> <<"A","c","c"," ","9","5","%","."," ","F","1"," ","0",".","9",".">>],
    [page |-> 3, section |-> <<"M","e","t","h","o","d">>,
     text |-> <<" ","1","."," ","S","t","e","p"," ","A","."," "," ","F","i","r","s","t",","," ","g","o","."," ","t","h","e","n"," ","b"," ">>],
    [page |-> 1, section |-> <<"I","n","t","r","o","d","u","c","t","i","o","n">>,
     text |-> <<"f","(","x",")","=","1",":"," ","X"," ","m","e","a","n","s"," ","Y"," ","v","s"," ","Z","."," ","o","k">>],
    [page |-> 2, section |-> <<"I","n","t","r","o">>,
     text |-> <<"H","i","!"," ","O","k","?"," ","A","."," ","B","."," ","C","."," ","D",".">>] }

\* build_faiss_index: metadata dicts in chunk order, chunk_id counting from 0.
WithChunkIds(chunks) ==
    [i \in 1..Len(chunks) |->
        [chunk_id |-> i - 1, page |-> chunks[i].page,
         section |-> chunks[i].section, text |-> chunks[i].text]]

Distinct(s) == \A i, j \in 1..Len(s) : i # j => s[i] # s[j]

Corpora ==
    {WithChunkIds(s) : s \in {t \in SeqsUpTo(ChunkPalette, MaxChunks) :
                                 Len(t) >= 1 /\ Distinct(t)}}

\* Distance between neighbours of the ranking, in hundredths.
DistanceSteps == {0, 10}

\* What faiss_index.search returns for the whole index: every position once,
\* distances ascending.  The index order and its reverse, evenly spaced.
FaissRankings(n) ==
    {[r \in 1..n |-> [idx |-> r - 1, distance |-> (r - 1) * step]] :
        step \in DistanceSteps}
    \cup
    {[r \in 1..n |-> [idx |-> n - r, distance |-> (r - 1) * step]] :
        step \in DistanceSteps}

IntentInfos ==
    {[intent |-> i, confidence |-> c, method |-> "keyword"] :
        i \in Intents \cup {"UNKNOWN"}, c \in {Conf(2, 10), Conf(3, 10), Conf(8, 10)}}

TokenLimits == (0 - 1)..MaxTokenLimit

\* The limits compress_context is called with: a negative one, none, one
\* token, the largest.
PipelineTokenLimits == {0 - 1, 0, 1, MaxTokenLimit}

\* apply_budget alone: any list of items, sorted by score as its callers pass it.
EvidenceOfLengths(lens) ==
    [i \in 1..Len(lens) |->
        [sentence |-> Rep("A", lens[i]), page |-> i, section |-> <<"R","e","s","u","l","t","s">>,
         score |-> 900 - 100 * i]]

EvidenceLists ==
    {EvidenceOfLengths(lens) : lens \in SeqsUpTo(0..MaxSentenceLen, MaxEvidence)}

\* Two sentences of 4 * 30 characters, scores 0.9 and 0.8.
ScenarioEvidence ==
    <<[sentence |-> Rep("A", 4 * 30), page |-> 1, section |-> <<"R","e","s","u","l","t","s">>, score |-> 900],
      [sentence |-> Rep("B", 4 * 30), page |-> 1, section |-> <<"R","e","s","u","l","t","s">>, score |-> 800]>>

\* No second call beside the one that runs.
NoOther ==
    [pc |-> "none", faiss_hits |-> <<>>, intent_info |-> None, top_k |-> 0,
     token_limit |-> 0, retrieved_chunks |-> <<>>, evidence_list |-> <<>>,
     budget_result |-> None, result |-> None]

(***************************************************************************)
(* compress_context, one action per stage.                                 *)
(***************************************************************************)
Init ==
    /\ pc = "start"
    /\ query = <<>>
    /\ intent_result = None
    /\ \/ metadata_list \in Corpora /\ faiss_hits \in FaissRankings(Len(metadata_list))
       \/ metadata_list = <<>> /\ faiss_hits = <<>>
       \/ /\ metadata_list \in {m \in Corpora : Len(m) = 1}
          /\ faiss_hits \in FaissRankings(2)
    /\ intent_info \in IntentInfos
    /\ top_k \in 1..MaxTopK
    /\ token_limit \in PipelineTokenLimits
    /\ retrieved_chunks = <<>>
    /\ evidence_list = <<>>
    /\ budget_result = None
    /\ result = None
    /\ raised = None
    /\ first_result = <<>>
    /\ NoIngestion
    /\ NoAnswering
    /\ other = NoOther

\* Step 1: intent-aware retrieval
Retrieve ==
    /\ pc = "start"
    /\ LET outcome == RetrieveOutcome(faiss_hits, intent_info, metadata_list, top_k)
       IN  /\ retrieved_chunks' = outcome.chunks
           /\ raised' = outcome.raised
           /\ pc' = IF outcome.raised = None THEN "retrieved" ELSE "raised"
    /\ metadata_list' = MetadataAfterRetrieve(faiss_hits, intent_info, metadata_list, top_k)
    /\ UNCHANGED <<ingestion, answering, first_result, other, query, intent_result, faiss_hits, intent_info,
                   top_k, token_limit, evidence_list, budget_result, result>>

\* Step 2: evidence selection
SelectEvidence ==
    /\ pc = "retrieved"
    /\ evidence_list' = select_evidence(retrieved_chunks, intent_info, EvidenceLimit(top_k))
    /\ pc' = "selected"
    /\ UNCHANGED <<ingestion, answering, raised, first_result, other, query, intent_result, metadata_list,
                   faiss_hits, intent_info, top_k,
                   token_limit, retrieved_chunks, budget_result, result>>

\* Step 3: apply token budget
ApplyBudget ==
    /\ pc = "selected"
    /\ budget_result' = apply_budget(evidence_list, token_limit)
    /\ pc' = "budgeted"
    /\ UNCHANGED <<ingestion, answering, raised, first_result, other, query, intent_result, metadata_list,
                   faiss_hits, intent_info, top_k,
                   token_limit, retrieved_chunks, evidence_list, result>>

\* Step 4: build the compressed context string and return
BuildContext ==
    /\ pc = "budgeted"
    /\ result' = BuildResult(budget_result)
    /\ pc' = "done"
    /\ UNCHANGED <<ingestion, answering, raised, first_result, other, query, intent_result, metadata_list,
                   faiss_hits, intent_info, top_k,
                   token_limit, retrieved_chunks, evidence_list, budget_result>>

Next == Retrieve \/ SelectEvidence \/ ApplyBudget \/ BuildContext

Spec == Init /\ [][Next]_vars

(***************************************************************************)
(* apply_budget called on its own.                                         *)
(***************************************************************************)
InitBudget ==
    /\ pc = "selected"
    /\ query = <<>>
    /\ intent_result = None
    /\ metadata_list = <<>>
    /\ faiss_hits = <<>>
    /\ intent_info = None
    /\ top_k = 1
    /\ \/ evidence_list \in EvidenceLists /\ token_limit \in TokenLimits
       \/ evidence_list = ScenarioEvidence /\ token_limit = 40
    /\ retrieved_chunks = <<>>
    /\ budget_result = None
    /\ result = None
    /\ raised = None
    /\ first_result = <<>>
    /\ NoIngestion
    /\ NoAnswering
    /\ other = NoOther

NextBudget == ApplyBudget

SpecBudget == InitBudget /\ [][NextBudget]_vars

(***************************************************************************)
(* detect_intent called on its own.                                        *)
(***************************************************************************)
InitIntent ==
    /\ pc = "query"
    /\ query \in Queries
    /\ intent_result = None
    /\ metadata_list = <<>>
    /\ faiss_hits = <<>>
    /\ intent_info = None
    /\ top_k = 1
    /\ token_limit = 0
    /\ retrieved_chunks = <<>>
    /\ evidence_list = <<>>
    /\ budget_result = None
    /\ result = None
    /\ raised = None
    /\ first_result = <<>>
    /\ NoIngestion
    /\ NoAnswering
    /\ other = NoOther

DetectIntent ==
    /\ pc = "query"
    /\ intent_result' = detect_intent(query)
    /\ pc' = "detected"
    /\ UNCHANGED <<ingestion, answering, raised, first_result, other, query, metadata_list, faiss_hits,
                   intent_info, top_k, token_limit,
                   retrieved_chunks, evidence_list, budget_result, result>>

NextIntent == DetectIntent

SpecIntent == InitIntent /\ [][NextIntent]_vars

(***************************************************************************)
(* compress_context called a second time with the arguments of the first.  *)
(***************************************************************************)
\* The call is over, by return or by exception; the same arguments go into a
\* new call.  What the first call left in the process stays where it is.
CallAgain ==
    /\ pc \in {"done", "raised"}
    /\ Len(first_result) = 0
    /\ first_result' = <<[result |-> result, raised |-> raised]>>
    /\ raised' = None
    /\ pc' = "start"
    /\ UNCHANGED <<ingestion, answering, other, query, intent_result, metadata_list, faiss_hits, intent_info,
                   top_k, token_limit, retrieved_chunks, evidence_list, budget_result,
                   result>>

NextTwice == Next \/ CallAgain

SpecTwice == Init /\ [][NextTwice]_vars

(***************************************************************************)
(* select_evidence called on its own.                                      *)
(***************************************************************************)
\* Any list of chunks, the empty one included, and any limit from 0 on.
InitSelect ==
    /\ pc = "chunks"
    /\ query = <<>>
    /\ intent_result = None
    /\ metadata_list = <<>>
    /\ faiss_hits = <<>>
    /\ intent_info \in IntentInfos
    /\ top_k \in 0..MaxSelect
    /\ token_limit = 0
    /\ retrieved_chunks \in Corpora \cup {<<>>}
    /\ evidence_list = <<>>
    /\ budget_result = None
    /\ result = None
    /\ raised = None
    /\ first_result = <<>>
    /\ NoIngestion
    /\ NoAnswering
    /\ other = NoOther

SelectAlone ==
    /\ pc = "chunks"
    /\ evidence_list' = select_evidence(retrieved_chunks, intent_info, top_k)
    /\ pc' = "evidence"
    /\ UNCHANGED <<ingestion, answering, raised, first_result, other, query, intent_result, metadata_list,
                   faiss_hits, intent_info, top_k, token_limit, retrieved_chunks,
                   budget_result, result>>

NextSelect == SelectAlone

SpecSelect == InitSelect /\ [][NextSelect]_vars

(***************************************************************************)
(* Two compress_context calls on one index, their stages interleaved.      *)
(***************************************************************************)
\* The first query ranks the index in its order; the second query is another
\* one: its ranking is the reverse, its top_k the other end of the range.
Reverse(s) == [i \in 1..Len(s) |-> s[Len(s) + 1 - i]]

OtherRanking(hits) ==
    [r \in 1..Len(hits) |-> [idx |-> Reverse(hits)[r].idx, distance |-> hits[r].distance]]

OtherIntentInfos ==
    {[intent |-> "RESULT", confidence |-> Conf(8, 10), method |-> "keyword"],
     [intent |-> "DEFINITION", confidence |-> Conf(3, 10), method |-> "fallback"]}

InitParallel ==
    /\ pc = "start"
    /\ query = <<>>
    /\ intent_result = None
    /\ metadata_list \in Corpora
    /\ faiss_hits \in {h \in FaissRankings(Len(metadata_list)) : h[1].idx = 0}
    /\ intent_info \in {info \in IntentInfos : info.confidence >= Conf(3, 10)}
    /\ top_k \in 1..MaxTopK
    /\ token_limit = MaxTokenLimit
    /\ retrieved_chunks = <<>>
    /\ evidence_list = <<>>
    /\ budget_result = None
    /\ result = None
    /\ raised = None
    /\ first_result = <<>>
    /\ NoIngestion
    /\ NoAnswering
    /\ \E info \in OtherIntentInfos :
           other = [pc |-> "start", faiss_hits |-> OtherRanking(faiss_hits),
                    intent_info |-> info, top_k |-> MaxTopK + 1 - top_k,
                    token_limit |-> 1, retrieved_chunks |-> <<>>,
                    evidence_list |-> <<>>, budget_result |-> None, result |-> None]

OtherRetrieve ==
    /\ other.pc = "start"
    /\ other' = [other EXCEPT
                    !.retrieved_chunks = retrieve_with_intent(other.faiss_hits,
                                             other.intent_info, metadata_list, other.top_k),
                    !.pc = "retrieved"]
    /\ metadata_list' = MetadataAfterRetrieve(other.faiss_hits, other.intent_info,
                                              metadata_list, other.top_k)
    /\ UNCHANGED <<ingestion, answering, pc, raised, first_result, query, intent_result, faiss_hits, intent_info,
                   top_k, token_limit, retrieved_chunks, evidence_list, budget_result,
                   result>>

OtherSelectEvidence ==
    /\ other.pc = "retrieved"
    /\ other' = [other EXCEPT
                    !.evidence_list = select_evidence(other.retrieved_chunks,
                                          other.intent_info, EvidenceLimit(other.top_k)),
                    !.pc = "selected"]
    /\ UNCHANGED <<ingestion, answering, pc, raised, first_result, query, intent_result, metadata_list,
                   faiss_hits, intent_info, top_k, token_limit, retrieved_chunks,
                   evidence_list, budget_result, result>>

OtherApplyBudget ==
    /\ other.pc = "selected"
    /\ other' = [other EXCEPT
                    !.budget_result = apply_budget(other.evidence_list, other.token_limit),
                    !.pc = "budgeted"]
    /\ UNCHANGED <<ingestion, answering, pc, raised, first_result, query, intent_result, metadata_list,
                   faiss_hits, intent_info, top_k, token_limit, retrieved_chunks,
                   evidence_list, budget_result, result>>

OtherBuildContext ==
    /\ other.pc = "budgeted"
    /\ other' = [other EXCEPT
                    !.result = BuildResult(other.budget_result),
                    !.pc = "done"]
    /\ UNCHANGED <<ingestion, answering, pc, raised, first_result, query, intent_result, metadata_list,
                   faiss_hits, intent_info, top_k, token_limit, retrieved_chunks,
                   evidence_list, budget_result, result>>

NextParallel ==
    \/ Retrieve \/ SelectEvidence \/ ApplyBudget \/ BuildContext
    \/ OtherRetrieve \/ OtherSelectEvidence \/ OtherApplyBudget \/ OtherBuildContext

SpecParallel == InitParallel /\ [][NextParallel]_vars

(***************************************************************************)
(* Two calls of compress_context whose arguments differ in the intent      *)
(* label alone, at a confidence that is not above 0.3.                     *)
(***************************************************************************)
IntentLabels == <<"RESULT", "METHOD", "API_USAGE", "DEFINITION", "COMPARISON", "UNKNOWN">>

LowConfidences == {Conf(2, 10), Conf(3, 10)}

InitIntentPair ==
    /\ pc = "start"
    /\ query = <<>>
    /\ intent_result = None
    /\ metadata_list \in Corpora
    /\ faiss_hits \in {h \in FaissRankings(Len(metadata_list)) : h[1].idx = 0}
    /\ top_k \in 1..MaxTopK
    /\ token_limit = MaxTokenLimit
    /\ retrieved_chunks = <<>>
    /\ evidence_list = <<>>
    /\ budget_result = None
    /\ result = None
    /\ raised = None
    /\ first_result = <<>>
    /\ NoIngestion
    /\ NoAnswering
    /\ \E a, b \in 1..Len(IntentLabels), c \in LowConfidences :
           /\ a < b
           /\ intent_info = [intent |-> IntentLabels[a], confidence |-> c,
                             method |-> "keyword"]
           /\ other = [pc |-> "start", faiss_hits |-> faiss_hits,
                       intent_info |-> [intent |-> IntentLabels[b], confidence |-> c,
                                        method |-> "keyword"],
                       top_k |-> top_k, token_limit |-> token_limit,
                       retrieved_chunks |-> <<>>, evidence_list |-> <<>>,
                       budget_result |-> None, result |-> None]

SpecIntentPair == InitIntentPair /\ [][NextParallel]_vars

(***************************************************************************)
(* ingestion/section_detector.py                                           *)
(***************************************************************************)
\* section_patterns, in matching priority: \bstem\b, \bstems?\b when plural,
\* \bstem\s+second\b when there is a second word.
section_patterns ==
    <<
      [stem |-> <<"a","b","s","t","r","a","c","t">>, plural |-> FALSE,
       second |-> <<>>, name |-> "Abstract"],
      [stem |-> <<"i","n","t","r","o","d","u","c","t","i","o","n">>, plural |-> FALSE,
       second |-> <<>>, name |-> "Introduction"],
      [stem |-> <<"m","e","t","h","o","d","o","l","o","g","y">>, plural |-> FALSE,
       second |-> <<>>, name |-> "Methodology"],
      [stem |-> <<"m","e","t","h","o","d">>, plural |-> FALSE,
       second |-> <<>>, name |-> "Method"],
      [stem |-> <<"r","e","s","u","l","t">>, plural |-> TRUE,
       second |-> <<>>, name |-> "Results"],
      [stem |-> <<"d","i","s","c","u","s","s","i","o","n">>, plural |-> FALSE,
       second |-> <<>>, name |-> "Discussion"],
      [stem |-> <<"c","o","n","c","l","u","s","i","o","n">>, plural |-> FALSE,
       second |-> <<>>, name |-> "Conclusion"],
      [stem |-> <<"r","e","f","e","r","e","n","c","e">>, plural |-> TRUE,
       second |-> <<>>, name |-> "References"],
      [stem |-> <<"r","e","l","a","t","e","d">>, plural |-> FALSE,
       second |-> <<"w","o","r","k">>, name |-> "Related Work"],
      [stem |-> <<"e","x","p","e","r","i","m","e","n","t">>, plural |-> TRUE,
       second |-> <<>>, name |-> "Experiments"]
    >>

\* The characters \w matches.
WordChars ==
    {LowerLetters[i] : i \in 1..26} \cup {UpperLetters[i] : i \in 1..26}
    \cup {"0","1","2","3","4","5","6","7","8","9"} \cup {"_"}

IsWordChar(c) == c \in WordChars

\* \b between the characters i and i + 1 of the line.
WordBoundary(line, i) ==
    (i >= 1 /\ IsWordChar(line[i])) # (i < Len(line) /\ IsWordChar(line[i + 1]))

\* The characters of word are those of the line after the first i.
WordAt(word, line, i) ==
    /\ i + Len(word) <= Len(line)
    /\ \A j \in 1..Len(word) : line[i + j] = word[j]

\* The pattern matches the line from just after its first i characters.
PatternMatchesAt(pattern, line, i) ==
    LET e == i + Len(pattern.stem)
    IN  /\ WordAt(pattern.stem, line, i)
        /\ WordBoundary(line, i)
        /\ IF pattern.second = <<>>
           THEN \/ WordBoundary(line, e)
                \/ /\ pattern.plural
                   /\ WordAt(<<"s">>, line, e)
                   /\ WordBoundary(line, e + 1)
           ELSE \E w \in 1..(Len(line) - e) :
                    /\ \A j \in 1..w : IsSpace(line[e + j])
                    /\ WordAt(pattern.second, line, e + w)
                    /\ WordBoundary(line, e + w + Len(pattern.second))

\* re.search(pattern, line_stripped, re.IGNORECASE)
PatternFound(pattern, line) ==
    \E i \in 0..Len(line) : PatternMatchesAt(pattern, line, i)

\* text.split('\n')
RECURSIVE SplitLines(_)
SplitLines(text) ==
    IF \A i \in 1..Len(text) : text[i] # "\n" THEN <<text>>
    ELSE LET cut == CHOOSE i \in 1..Len(text) :
                        text[i] = "\n" /\ \A j \in 1..(i - 1) : text[j] # "\n"
         IN  <<SubSeq(text, 1, cut - 1)>> \o SplitLines(SubSeq(text, cut + 1, Len(text)))

\* The inner loop of _detect_section_header from pattern p on: the name of
\* the first pattern found in a line that is shorter than 50, None when none.
RECURSIVE HeaderInLine(_, _, _)
HeaderInLine(line_stripped, patterns, p) ==
    IF p > Len(patterns) THEN None
    ELSE IF PatternFound(patterns[p], line_stripped) /\ Len(line_stripped) < 50
    THEN patterns[p].name
    ELSE HeaderInLine(line_stripped, patterns, p + 1)

\* The outer loop of _detect_section_header over lines[:10], from line k on.
RECURSIVE HeaderFromLine(_, _, _)
HeaderFromLine(lines, patterns, k) ==
    IF k > Min(10, Len(lines)) THEN None
    ELSE LET line_stripped == Lower(Strip(lines[k]))
             section_name == HeaderInLine(line_stripped, patterns, 1)
         IN  IF Len(line_stripped) < 3 THEN HeaderFromLine(lines, patterns, k + 1)
             ELSE IF section_name # None THEN section_name
             ELSE HeaderFromLine(lines, patterns, k + 1)

_detect_section_header(text, patterns) == HeaderFromLine(SplitLines(text), patterns, 1)

\* Mutant: a page without a header starts over at "Unknown".
NextSectionReset(current, detected_section) ==
    IF detected_section # None THEN detected_section ELSE "Unknown"

\* if detected_section: current_section = detected_section
NextSection(current, detected_section) ==
    IF detected_section # None THEN detected_section ELSE current

\* Page texts as extract_text_from_pdf emits them, none of them blank: a
\* header after a number, no header, a header in capitals, a header after a
\* line that is too short.
HeaderTexts == {
    <<"1"," ","I","n","t","r","o","d","u","c","t","i","o","n","\n","W","e">>,
    <<"S","o","m","e"," ","t","e","x","t",".">>,
    <<"M","E","T","H","O","D","O","L","O","G","Y">>,
    <<"a","b","\n","C","o","n","c","l","u","s","i","o","n",":"," ","r","e",
      "s","u","l","t","s">>}

\* A plural that is no header, a header of two words, a header after a line
\* that is too long, a header below the tenth line, a word joined to a
\* header word by an underscore.
EdgeTexts == {
    <<"M","e","t","h","o","d","s">>,
    <<" ","R","e","l","a","t","e","d"," "," ","W","o","r","k"," ">>,
    <<"T","h","e"," ","r","e","s","u","l","t","s"," ","o","f"," ","a","l",
      "l"," ","o","f"," ","o","u","r"," ","e","x","p","e","r","i","m","e",
      "n","t","s"," ","a","r","e"," ","i","n"," ","t","a","b","l","e"," ",
      "1",".","\n","R","e","f","e","r","e","n","c","e","s">>,
    <<"\n","\n","\n","\n","\n","\n","\n","\n","\n","\n","A","b","s","t","r",
      "a","c","t">>,
    <<"m","e","t","h","o","d","_","a"," ","e","x","p","e","r","i","m","e",
      "n","t">>}

PageTexts == HeaderTexts \cup EdgeTexts

\* Lists of pages: up to two pages of any of the texts, longer ones of the
\* header texts.
PageLists ==
    UNION {[1..n -> PageTexts] : n \in 0..2}
    \cup UNION {[1..n -> HeaderTexts] : n \in 3..MaxPages}

InitSections ==
    /\ pc = "pages"
    /\ \E texts \in PageLists :
           pages_data = [i \in 1..Len(texts) |-> [page |-> 2 * i, text |-> texts[i]]]
    /\ current_section = "Unknown"
    /\ pages_with_sections = <<>>
    /\ query = <<>>
    /\ intent_result = None
    /\ metadata_list = <<>>
    /\ faiss_hits = <<>>
    /\ intent_info = None
    /\ top_k = 0
    /\ token_limit = 0
    /\ retrieved_chunks = <<>>
    /\ evidence_list = <<>>
    /\ budget_result = None
    /\ result = None
    /\ raised = None
    /\ first_result = <<>>
    /\ other = NoOther
    /\ NoAnswering

\* One pass of the loop of detect_sections, on the next page.
LabelPage ==
    /\ pc = "pages"
    /\ Len(pages_with_sections) < Len(pages_data)
    /\ LET page_data == pages_data[Len(pages_with_sections) + 1]
           detected_section == _detect_section_header(page_data.text, section_patterns)
       IN  /\ current_section' = NextSection(current_section, detected_section)
           /\ pages_with_sections' =
                  Append(pages_with_sections,
                         [page |-> page_data.page, section |-> current_section',
                          text |-> page_data.text])
    /\ UNCHANGED <<pc, pages_data, answering, query, intent_result, metadata_list,
                   faiss_hits, intent_info, top_k, token_limit, retrieved_chunks,
                   evidence_list, budget_result, result, raised, first_result, other>>

\* return pages_with_sections
ReturnSections ==
    /\ pc = "pages"
    /\ Len(pages_with_sections) = Len(pages_data)
    /\ pc' = "sectioned"
    /\ UNCHANGED <<ingestion, answering, query, intent_result, metadata_list,
                   faiss_hits, intent_info, top_k, token_limit, retrieved_chunks,
                   evidence_list, budget_result, result, raised, first_result, other>>

NextSections == LabelPage \/ ReturnSections

SpecSections == InitSections /\ [][NextSections]_vars

(***************************************************************************)
(* answering/llm.py and evaluation/adaptive_rag.py                         *)
(***************************************************************************)
\* Mutant: the key is passed on as it is, the model is called with it.
generate_answer_unchecked(key, calls, response_text) ==
    [raised |-> None, model_calls |-> calls + 1, answer |-> response_text]

\* generate_answer for the value of GOOGLE_API_KEY, the number of model calls
\* made so far and the text the model would answer with: "if not api_key"
\* holds for a variable that is not set and for an empty one.
generate_answer(key, calls, response_text) ==
    IF key \in {None, ""}
    THEN [raised |-> "ValueError", model_calls |-> calls, answer |-> None]
    ELSE [raised |-> None, model_calls |-> calls + 1, answer |-> response_text]

\* Values of the environment variable GOOGLE_API_KEY: not set, empty, set.
ApiKeys == {None, "", "key"}

\* response.text
ResponseTexts == {"I cannot answer.", "The accuracy is 95%."}

InitAnswer ==
    /\ pc = "query"
    /\ query \in Phrases \cup {<<>>}
    /\ intent_result = None
    /\ \/ metadata_list \in Corpora
          /\ faiss_hits \in {h \in FaissRankings(Len(metadata_list)) : h[1].idx = 0}
       \/ metadata_list = <<>> /\ faiss_hits = <<>>
    /\ intent_info = None
    /\ top_k = MaxTopK
    /\ token_limit = MaxTokenLimit
    /\ retrieved_chunks = <<>>
    /\ evidence_list = <<>>
    /\ budget_result = None
    /\ result = None
    /\ raised = None
    /\ first_result = <<>>
    /\ other = NoOther
    /\ NoIngestion
    /\ api_key \in ApiKeys
    /\ model_calls = 0
    /\ answer = None
    /\ rag_result = <<>>

\* Step 2: the query is embedded and compress_context is called with the
\* detected intent; the ranking of the index for the embedding is faiss_hits.
EmbedQuery ==
    /\ pc = "detected"
    /\ intent_info' = intent_result
    /\ pc' = "start"
    /\ UNCHANGED <<ingestion, answering, raised, first_result, other, query,
                   intent_result, metadata_list, faiss_hits, top_k, token_limit,
                   retrieved_chunks, evidence_list, budget_result, result>>

\* Step 4: answer = generate_answer(compressed_context, query)
GenerateAnswer ==
    /\ pc = "done"
    /\ \E response_text \in ResponseTexts :
           LET outcome == generate_answer(api_key, model_calls, response_text)
           IN  /\ raised' = outcome.raised
               /\ model_calls' = outcome.model_calls
               /\ answer' = outcome.answer
               /\ pc' = IF outcome.raised = None THEN "answered" ELSE "raised"
    /\ UNCHANGED <<ingestion, api_key, rag_result, first_result, other, query,
                   intent_result, metadata_list, faiss_hits, intent_info, top_k,
                   token_limit, retrieved_chunks, evidence_list, budget_result, result>>

\* The return statement of run_adaptive_rag.
ReturnAnswer ==
    /\ pc = "answered"
    /\ rag_result' = <<[query |-> query, intent |-> intent_info, answer |-> answer,
                        compressed_context |-> result.compressed_context,
                        tokens_used |-> result.tokens_used,
                        num_sentences |-> result.num_sentences]>>
    /\ pc' = "returned"
    /\ UNCHANGED <<ingestion, api_key, model_calls, answer, raised, first_result, other,
                   query, intent_result, metadata_list, faiss_hits, intent_info, top_k,
                   token_limit, retrieved_chunks, evidence_list, budget_result, result>>

NextAnswer ==
    \/ DetectIntent \/ EmbedQuery
    \/ Retrieve \/ SelectEvidence \/ ApplyBudget \/ BuildContext
    \/ GenerateAnswer \/ ReturnAnswer

SpecAnswer == InitAnswer /\ [][NextAnswer]_vars

(***************************************************************************)
(* Properties.                                                             *)
(***************************************************************************)
\* Cost of the first j items of the evidence list, as apply_budget counts it.
PrefixCost(evidence, j) ==
    Sum([i \in 1..j |-> estimate_tokens(evidence[i].sentence)], j)

\* C1 as stated: for every evidence list and every token_limit, apply_budget
\* returns tokens_used <= token_limit.
C1_TokensWithinAnyLimit ==
    pc = "budgeted" => budget_result.tokens_used <= token_limit

\* C1 as amended: for every evidence list and every token_limit >= 0,
\* apply_budget returns tokens_used <= token_limit.
C1_TokensWithinLimit ==
    (pc = "budgeted" /\ token_limit >= 0) => budget_result.tokens_used <= token_limit

C1_Witness ==
    /\ pc = "budgeted"
    /\ token_limit >= 0
    /\ budget_result.num_sentences >= 1
    /\ budget_result.num_sentences < Len(evidence_list)
    /\ budget_result.tokens_used = token_limit

\* C2: apply_budget's selected_evidence is a prefix by index of evidence_list:
\* item i of the selection is item i of the input, for every i < num_sentences.
C2_SelectedIsPrefix ==
    pc = "budgeted" =>
        /\ budget_result.num_sentences = Len(budget_result.selected_evidence)
        /\ budget_result.num_sentences <= Len(evidence_list)
        /\ \A i \in 1..budget_result.num_sentences :
               budget_result.selected_evidence[i] = evidence_list[i]

C2_Witness ==
    /\ pc = "budgeted"
    /\ budget_result.num_sentences = 2
    /\ Len(evidence_list) > 2
    /\ budget_result.selected_evidence = SubSeq(evidence_list, 1, 2)

\* C3: the character-based estimate len(compressed_context) // 4 of the string
\* compress_context forwards does not exceed token_limit (stated for the
\* limits that a size can meet at all, token_limit >= 0).
C3_ContextWithinBudget ==
    (pc = "done" /\ token_limit >= 0) =>
        estimate_tokens(result.compressed_context) <= token_limit

\* C4: with token_limit = 0 compress_context returns num_sentences = 0,
\* tokens_used = 0 and the empty compressed_context, whatever the input.
C4_ZeroBudgetEmpty ==
    (pc = "done" /\ token_limit = 0) =>
        /\ result.num_sentences = 0
        /\ result.tokens_used = 0
        /\ result.compressed_context = <<>>

\* C5: apply_budget stops at the first item whose cost would push the running
\* total above token_limit: no item from that one on is selected, even one
\* that would still fit; two 120-character sentences with token_limit 40
\* select only the first, tokens_used = 30.
C5_StopsAtFirstOverBudget ==
    pc = "budgeted" =>
        /\ \A j \in 1..Len(evidence_list) :
               PrefixCost(evidence_list, j) > token_limit
                   => budget_result.num_sentences < j
        /\ budget_result.tokens_used
               = PrefixCost(evidence_list, budget_result.num_sentences)
        /\ (evidence_list = ScenarioEvidence /\ token_limit = 40)
               => (budget_result.num_sentences = 1 /\ budget_result.tokens_used = 30)

\* A later item would still have fitted after the one that stopped the loop.
C5_Witness ==
    /\ pc = "budgeted"
    /\ budget_result.num_sentences >= 1
    /\ \E k \in (budget_result.num_sentences + 2)..Len(evidence_list) :
           budget_result.tokens_used + estimate_tokens(evidence_list[k].sentence)
               <= token_limit

\* The keywords of every pattern but p that occur in the query.
OtherMatches(p, q) ==
    {o \in 1..Len(intent_patterns) : o # p /\ Matches(o, Lower(q)) > 0}

\* C6: for every query, detect_intent returns a confidence in [0, 1] and one
\* of the five intents.
C6_IntentResultInRange ==
    pc = "detected" =>
        /\ intent_result.confidence >= 0
        /\ intent_result.confidence <= ConfScale
        /\ intent_result.intent \in {"METHOD", "RESULT", "API_USAGE", "DEFINITION",
                                     "COMPARISON"}

\* The cap is met: the raw confidence would be above 1.
C6_Witness ==
    /\ pc = "detected"
    /\ intent_result.confidence = ConfScale
    /\ \E p \in 1..Len(intent_patterns) : 2 * NormalizedScore(p, Lower(query)) > ConfScale

\* The case of C7: 'accuracy' is in the query, no keyword of another category is.
C7_Case ==
    /\ pc = "detected"
    /\ Contains(<<"a","c","c","u","r","a","c","y">>, Lower(query))
    /\ OtherMatches(1, query) = {}

\* C7 as stated: a query with the RESULT keyword 'accuracy' and no keyword of
\* another category is classified RESULT with confidence >= 0.3.
C7_AccuracyConfident ==
    C7_Case => (intent_result.intent = "RESULT" /\ intent_result.confidence >= Conf(3, 10))

\* C7 as amended: such a query is classified RESULT; its confidence is 2/15
\* when 'accuracy' is the only keyword that matches, and is >= 0.3 exactly
\* when a second RESULT keyword matches too.
C7_AccuracyIsResult ==
    C7_Case =>
        /\ intent_result.intent = "RESULT"
        /\ Matches(1, Lower(query)) = 1 => intent_result.confidence = Conf(2, 15)
        /\ intent_result.confidence >= Conf(3, 10) <=> Matches(1, Lower(query)) >= 2

C7_Witness ==
    /\ C7_Case
    /\ query = <<"W","h","a","t"," ","a","c","c","u","r","a","c","y"," ","d","i","d"," ","t","h","e"," ","m","o","d","e","l"," ","a","c","h","i","e","v","e","?">>
    /\ intent_result.confidence = Conf(2, 15)

\* C8: a query with no keyword of any category, the empty query included,
\* gets intent DEFINITION with confidence exactly 0.3.
C8_FallbackDefinition ==
    (pc = "detected" /\ \A p \in 1..Len(intent_patterns) : Matches(p, Lower(query)) = 0)
        => (intent_result.intent = "DEFINITION" /\ intent_result.confidence = Conf(3, 10))

C8_Witness ==
    /\ pc = "detected"
    /\ query = <<>>
    /\ intent_result.intent = "DEFINITION"

\* C9: in the list retrieve_with_intent returns the ranks are 1, 2, ..., n in
\* list order, and a smaller rank never has a smaller final_score.
C9_RanksFollowFinalScore ==
    pc # "start" =>
        /\ \A r \in 1..Len(retrieved_chunks) : retrieved_chunks[r].rank = r
        /\ \A a, b \in 1..Len(retrieved_chunks) :
               retrieved_chunks[a].rank < retrieved_chunks[b].rank
                   => retrieved_chunks[a].final_score >= retrieved_chunks[b].final_score

\* The bonus moved a farther chunk in front of the nearest one.
C9_Witness ==
    /\ pc = "retrieved"
    /\ Len(retrieved_chunks) >= 2
    /\ retrieved_chunks[1].chunk_id # metadata_list[faiss_hits[1].idx + 1].chunk_id
    /\ retrieved_chunks[1].final_score > retrieved_chunks[2].final_score

\* C10: calculate_intent_bonus returns a value in [0, 0.3] for every text,
\* section and intent, an unknown intent included, and so does every
\* intent_bonus attached to a returned chunk.
C10_BonusInRange ==
    /\ pc # "start" =>
           \A r \in 1..Len(retrieved_chunks) :
               retrieved_chunks[r].intent_bonus \in 0..30
    /\ pc \in {"retrieved", "raised"} =>
           \A c \in 1..Len(metadata_list) :
               calculate_intent_bonus(metadata_list[c].text, metadata_list[c].section,
                                      intent_info.intent) \in 0..30

\* One returned chunk has the largest bonus, another none.
C10_Witness ==
    /\ pc = "retrieved"
    /\ \E r \in 1..Len(retrieved_chunks) : retrieved_chunks[r].intent_bonus = 30
    /\ \E r \in 1..Len(retrieved_chunks) : retrieved_chunks[r].intent_bonus = 0

\* The chunk_id the index ranks at place c.
HitChunkId(c) == metadata_list[faiss_hits[c].idx + 1].chunk_id

\* C11: when the confidence is not above 0.3, every chunk that
\* retrieve_with_intent returns has intent_bonus 0, and the returned chunks
\* are the first top_k hits of the index search, in the order of the search.
C11_LowConfidenceKeepsSearchOrder ==
    (pc \notin {"start", "raised"} /\ intent_info.confidence <= Conf(3, 10)) =>
        /\ Len(retrieved_chunks) = Min(top_k, Len(faiss_hits))
        /\ \A r \in 1..Len(retrieved_chunks) :
               /\ retrieved_chunks[r].intent_bonus = 0
               /\ retrieved_chunks[r].chunk_id = HitChunkId(r)
               /\ retrieved_chunks[r].similarity_score = 0 - faiss_hits[r].distance
               /\ retrieved_chunks[r].final_score = 0 - faiss_hits[r].distance

\* The confidence is exactly 0.3, the distances tie, and the second chunk
\* returned is one the bonus would have put first.
C11_Witness ==
    /\ pc = "retrieved"
    /\ intent_info.confidence = Conf(3, 10)
    /\ Len(retrieved_chunks) >= 2
    /\ faiss_hits[1].distance = faiss_hits[2].distance
    /\ calculate_intent_bonus(retrieved_chunks[2].text, retrieved_chunks[2].section,
                              intent_info.intent)
           > calculate_intent_bonus(retrieved_chunks[1].text, retrieved_chunks[1].section,
                                    intent_info.intent)

\* The final_score of the index's hit at place c, from the hit itself.
CandidateScore(c) ==
    (0 - faiss_hits[c].distance)
    + (IF intent_info.confidence > Conf(3, 10)
       THEN calculate_intent_bonus(metadata_list[faiss_hits[c].idx + 1].text,
                                   metadata_list[faiss_hits[c].idx + 1].section,
                                   intent_info.intent)
       ELSE 0)

\* C12: the candidates of retrieve_with_intent are the first min(2 * top_k, N)
\* hits of an index of N vectors; it returns exactly min(top_k, N) of them,
\* ranked, none twice, all of them when there are fewer than top_k, and no
\* candidate left out has a larger final_score than one returned.
C12_ReturnsMinTopKOfCandidates ==
    pc \notin {"start", "raised"} =>
        LET N == Len(faiss_hits)
            candidates == 1..Min(2 * top_k, N)
            Returned(c) == \E r \in 1..Len(retrieved_chunks) :
                               retrieved_chunks[r].chunk_id = HitChunkId(c)
        IN  /\ Len(retrieved_chunks) = Min(top_k, N)
            /\ \A r \in 1..Len(retrieved_chunks) :
                   /\ retrieved_chunks[r].rank = r
                   /\ \E c \in candidates : retrieved_chunks[r].chunk_id = HitChunkId(c)
            /\ \A r, q \in 1..Len(retrieved_chunks) :
                   r # q => retrieved_chunks[r].chunk_id # retrieved_chunks[q].chunk_id
            /\ N <= top_k => \A c \in 1..N : Returned(c)
            /\ \A c \in candidates :
                   ~Returned(c) =>
                       \A r \in 1..Len(retrieved_chunks) :
                           retrieved_chunks[r].final_score >= CandidateScore(c)

\* 2 * top_k is more than the index holds, the cap applies, and a hit past the
\* first top_k is returned.
C12_Witness ==
    /\ pc = "retrieved"
    /\ 2 * top_k > Len(faiss_hits)
    /\ Len(faiss_hits) > top_k
    /\ Len(retrieved_chunks) = top_k
    /\ retrieved_chunks[1].chunk_id = HitChunkId(Len(faiss_hits))

\* C13: the list select_evidence returns is sorted by score, largest first,
\* has at most top_k items, and every item has a score above 0.
C13_EvidenceSortedLimitedPositive ==
    pc = "evidence" =>
        /\ Len(evidence_list) <= top_k
        /\ \A i \in 1..Len(evidence_list) : evidence_list[i].score > 0
        /\ \A i, j \in 1..Len(evidence_list) :
               i < j => evidence_list[i].score >= evidence_list[j].score

\* The sentences of all the chunks, scored or not.
SentenceCount(chunks) ==
    Sum([c \in 1..Len(chunks) |-> Len(split_into_sentences(chunks[c].text))], Len(chunks))

\* The limit cut the list, a sentence with score 0 was left out, and the
\* scores of the list are not all the same.
C13_Witness ==
    /\ pc = "evidence"
    /\ top_k >= 2
    /\ Len(evidence_list) = top_k
    /\ intent_info.confidence > Conf(3, 10)
    /\ Len(AllEvidence(retrieved_chunks, 1, intent_info.intent, TRUE)) > top_k
    /\ Len(AllEvidence(retrieved_chunks, 1, intent_info.intent, TRUE))
           < SentenceCount(retrieved_chunks)
    /\ evidence_list[1].score > evidence_list[top_k].score

\* The places of the sentences in the chunks given to select_evidence: chunk
\* number, then sentence number inside the chunk.
SentencePlaces(chunks) ==
    UNION {{<<c, i>> : i \in 1..Len(split_into_sentences(chunks[c].text))} :
              c \in 1..Len(chunks)}

\* The place an evidence item comes from (the sentences of the chunks differ).
PlaceOf(item, chunks) ==
    CHOOSE p \in SentencePlaces(chunks) :
        /\ split_into_sentences(chunks[p[1]].text)[p[2]] = item.sentence
        /\ chunks[p[1]].page = item.page
        /\ chunks[p[1]].section = item.section

Before(p, q) == p[1] < q[1] \/ (p[1] = q[1] /\ p[2] < q[2])

\* C14: two items of the list select_evidence returns that have the same score
\* stand in their original order: the order of their chunks in the list given,
\* then the order of the sentences inside a chunk.
C14_TiesKeepOriginalOrder ==
    pc = "evidence" =>
        \A i, j \in 1..Len(evidence_list) :
            (i < j /\ evidence_list[i].score = evidence_list[j].score)
                => Before(PlaceOf(evidence_list[i], retrieved_chunks),
                          PlaceOf(evidence_list[j], retrieved_chunks))

\* Equal scores inside one chunk and across two chunks, all in the list.
C14_Witness ==
    /\ pc = "evidence"
    /\ \E i, j \in 1..Len(evidence_list) :
           /\ i < j
           /\ evidence_list[i].score = evidence_list[j].score
           /\ PlaceOf(evidence_list[i], retrieved_chunks)[1]
                  = PlaceOf(evidence_list[j], retrieved_chunks)[1]
    /\ \E i, j \in 1..Len(evidence_list) :
           /\ i < j
           /\ evidence_list[i].score = evidence_list[j].score
           /\ PlaceOf(evidence_list[i], retrieved_chunks)[1]
                  < PlaceOf(evidence_list[j], retrieved_chunks)[1]

\* Where the i-th sentence starts in the joined context: behind the sentences
\* before it and their separators of two characters.
ContextStart(evidence, i) ==
    1 + Sum([j \in 1..(i - 1) |-> Len(evidence[j].sentence) + 2], i - 1)

\* C15: in the dict compress_context returns, compressed_context is the
\* sentences of selected_evidence in their order with "\n\n" between two of
\* them and nothing else, selected_evidence is what apply_budget selected,
\* num_sentences is its length and tokens_used the sum of len(sentence) // 4.
C15_ResultFieldsAgree ==
    pc = "done" =>
        LET selected == result.selected_evidence
            context == result.compressed_context
            n == Len(selected)
        IN  /\ selected = budget_result.selected_evidence
            /\ result.num_sentences = n
            /\ result.tokens_used
                   = Sum([i \in 1..n |-> Len(selected[i].sentence) \div 4], n)
            /\ Len(context) = IF n = 0 THEN 0
                              ELSE ContextStart(selected, n) + Len(selected[n].sentence) - 1
            /\ \A i \in 1..n :
                   SubSeq(context, ContextStart(selected, i),
                          ContextStart(selected, i) + Len(selected[i].sentence) - 1)
                       = selected[i].sentence
            /\ \A i \in 1..(n - 1) :
                   /\ context[ContextStart(selected, i + 1) - 2] = "\n"
                   /\ context[ContextStart(selected, i + 1) - 1] = "\n"

\* Three sentences joined, one of them with a token cost.
C15_Witness ==
    /\ pc = "done"
    /\ result.num_sentences >= 3
    /\ result.tokens_used >= 1
    /\ result.tokens_used <= token_limit

\* C16: a second call of compress_context with the arguments of the first,
\* made after the first is over, ends as the first did: the same dict
\* returned, or the same exception raised.
C16_SecondCallEqualsFirst ==
    (Len(first_result) = 1 /\ pc \in {"done", "raised"}) =>
        /\ raised = first_result[1].raised
        /\ result = first_result[1].result

\* The second call is over and returned, as the first did, a context of
\* several sentences.
C16_Witness ==
    /\ Len(first_result) = 1
    /\ pc = "done"
    /\ first_result[1].raised = None
    /\ result.num_sentences >= 2
    /\ Len(retrieved_chunks) >= 2

\* C17: no step of a compress_context call changes metadata_list, whether
\* the call returns or raises.
C17_MetadataListUnchanged == [][metadata_list' = metadata_list]_vars

\* The keys of a metadata entry as build_faiss_index writes it.
MetadataKeys == {"chunk_id", "page", "section", "text"}

\* The call returned, its chunks carry the fields the reranker wrote, one of
\* them a bonus, and each entry of metadata_list has its four keys only.
C17_Witness ==
    /\ pc = "done"
    /\ Len(retrieved_chunks) >= 2
    /\ \E r \in 1..Len(retrieved_chunks) : retrieved_chunks[r].intent_bonus > 0
    /\ \A r \in 1..Len(retrieved_chunks) :
           DOMAIN retrieved_chunks[r]
               = MetadataKeys \cup {"rank", "similarity_score", "intent_bonus", "final_score"}
    /\ \A p \in 1..Len(metadata_list) : DOMAIN metadata_list[p] = MetadataKeys

\* C18: when retrieval fails, on an index without vectors or on a metadata
\* list shorter than the index, the call ends there with the exception of
\* the search: nothing is retried, no later stage has run and no dict is
\* returned.
C18_FailurePropagates ==
    (pc # "start" /\ RetrieveError(faiss_hits, metadata_list, top_k) # None) =>
        /\ pc = "raised"
        /\ raised = RetrieveError(faiss_hits, metadata_list, top_k)
        /\ retrieved_chunks = <<>>
        /\ evidence_list = <<>>
        /\ budget_result = None
        /\ result = None
        /\ ~ENABLED Next

\* The call on an index without vectors has ended with the exception.
C18_Witness ==
    /\ pc = "raised"
    /\ Len(faiss_hits) = 0
    /\ raised = "AssertionError"

\* The score select_evidence gives a sentence.
SentenceScore(sentence) ==
    IF intent_info.confidence > Conf(3, 10)
    THEN score_sentence(sentence, intent_info.intent)
    ELSE Len(sentence)

\* No sentence of the retrieved chunks has a score above 0.
NoSentenceScores ==
    \A c \in 1..Len(retrieved_chunks) :
        \A i \in 1..Len(split_into_sentences(retrieved_chunks[c].text)) :
            SentenceScore(split_into_sentences(retrieved_chunks[c].text)[i]) <= 0

\* C19: when no sentence of the retrieved chunks has a score above 0,
\* select_evidence returns the empty list and compress_context returns, with
\* no exception, an empty compressed_context, num_sentences 0 and tokens_used 0.
C19_NothingScoresGivesEmptyResult ==
    (pc = "done" /\ NoSentenceScores) =>
        /\ evidence_list = <<>>
        /\ raised = None
        /\ result.compressed_context = <<>>
        /\ result.selected_evidence = <<>>
        /\ result.num_sentences = 0
        /\ result.tokens_used = 0

\* Two chunks were retrieved, with sentences, none of which scores.
C19_Witness ==
    /\ pc = "done"
    /\ Len(retrieved_chunks) >= 2
    /\ SentenceCount(retrieved_chunks) >= 4
    /\ NoSentenceScores
    /\ token_limit > 0

\* C20: of two compress_context calls that run on one index with their
\* stages interleaved in any way, each returns what a call with its arguments
\* returns on its own.
C20_ParallelEqualsAlone ==
    /\ pc = "done" =>
           result = compress_context(faiss_hits, intent_info, metadata_list,
                                     top_k, token_limit)
    /\ other.pc = "done" =>
           other.result = compress_context(other.faiss_hits, other.intent_info,
                                           metadata_list, other.top_k, other.token_limit)

\* Both calls have returned, each a context with sentences, and not the same.
C20_Witness ==
    /\ pc = "done"
    /\ other.pc = "done"
    /\ result.num_sentences >= 1
    /\ other.result.num_sentences >= 1
    /\ result.compressed_context # other.result.compressed_context
    /\ retrieved_chunks[1].chunk_id # other.retrieved_chunks[1].chunk_id

\* C26: for token_limit >= 0 apply_budget selects the longest prefix of the
\* input that fits: either every item is selected, or the cost of the
\* selection plus the cost of the first item not selected is above token_limit.
C26_LongestFittingPrefix ==
    (pc = "budgeted" /\ token_limit >= 0) =>
        LET n == budget_result.num_sentences
        IN  /\ budget_result.selected_evidence = SubSeq(evidence_list, 1, n)
            /\ PrefixCost(evidence_list, n) <= token_limit
            /\ \/ n = Len(evidence_list)
               \/ budget_result.tokens_used
                      + estimate_tokens(evidence_list[n + 1].sentence) > token_limit

\* The selection uses the limit up to the last token and stops before an item
\* that has a cost.
C26_Witness ==
    /\ pc = "budgeted"
    /\ token_limit >= 1
    /\ budget_result.num_sentences >= 1
    /\ budget_result.num_sentences < Len(evidence_list)
    /\ budget_result.tokens_used = token_limit
    /\ estimate_tokens(evidence_list[budget_result.num_sentences + 1].sentence) = 1

\* C29: for one evidence list and two limits L1 <= L2, what apply_budget
\* selects under L1 is a prefix of what it selects under L2, and tokens_used
\* under L1 is not above tokens_used under L2.
C29_MonotoneInLimit ==
    pc = "budgeted" =>
        \A larger \in TokenLimits :
            token_limit <= larger =>
                LET wider == apply_budget(evidence_list, larger)
                IN  /\ budget_result.num_sentences <= wider.num_sentences
                    /\ budget_result.selected_evidence
                           = SubSeq(wider.selected_evidence, 1,
                                    budget_result.num_sentences)
                    /\ budget_result.tokens_used <= wider.tokens_used

\* A larger limit of the range selects more, at a larger cost.
C29_Witness ==
    /\ pc = "budgeted"
    /\ budget_result.num_sentences >= 1
    /\ \E larger \in TokenLimits :
           /\ token_limit < larger
           /\ apply_budget(evidence_list, larger).num_sentences
                  > budget_result.num_sentences
           /\ apply_budget(evidence_list, larger).tokens_used
                  > budget_result.tokens_used

\* The pattern whose intent detect_intent returned.
ReturnedPattern ==
    CHOOSE p \in 1..Len(intent_patterns) : intent_patterns[p].intent = intent_result.intent

\* Sum of the word counts of the keywords of pattern p found in the query.
MatchedWords(p, query_lower) ==
    LET keywords == intent_patterns[p].keywords
    IN  Sum([k \in 1..Len(keywords) |->
                IF Contains(keywords[k], query_lower) THEN WordCount(keywords[k]) ELSE 0],
            Len(keywords))

SomeKeywordMatches ==
    \E p \in 1..Len(intent_patterns) : MatchedKeywords(p, Lower(query)) # {}

\* C22: when a keyword matches, the confidence is min(2 * s, 1.0) for
\* s = matched word counts / size of the keyword list of the returned intent,
\* plus 0.2, capped at 1.0, exactly when two or more keywords of that list matched.
C22_ConfidenceFormula ==
    (pc = "detected" /\ SomeKeywordMatches) =>
        LET words == MatchedWords(ReturnedPattern, Lower(query))
            size == Len(intent_patterns[ReturnedPattern].keywords)
            doubled == IF 2 * words >= size THEN ConfScale
                       ELSE (2 * words * ConfScale) \div size
            fifth == ConfScale \div 5
            several == Cardinality(MatchedKeywords(ReturnedPattern, Lower(query))) >= 2
        IN  intent_result.confidence
                = IF several
                  THEN (IF doubled + fifth >= ConfScale THEN ConfScale ELSE doubled + fifth)
                  ELSE doubled

\* Two keywords matched and neither cap applies: 2 * 2/15 + 0.2.
C22_Witness ==
    /\ pc = "detected"
    /\ intent_result.intent = "RESULT"
    /\ Cardinality(MatchedKeywords(ReturnedPattern, Lower(query))) = 2
    /\ intent_result.confidence = Conf(4, 15) + Conf(2, 10)

\* The patterns with the largest normalized score for the query.
TopPatterns ==
    {p \in 1..Len(intent_patterns) :
        /\ MatchedKeywords(p, Lower(query)) # {}
        /\ \A q \in 1..Len(intent_patterns) :
               MatchedWords(q, Lower(query)) * Len(intent_patterns[p].keywords)
                   <= MatchedWords(p, Lower(query)) * Len(intent_patterns[q].keywords)}

\* C30: when several intents share the largest normalized score,
\* detect_intent returns the one of them that comes first in the order
\* RESULT, METHOD, API_USAGE, DEFINITION, COMPARISON.
C30_TieGoesToFirstIntent ==
    (pc = "detected" /\ SomeKeywordMatches) =>
        /\ [p \in 1..Len(intent_patterns) |-> intent_patterns[p].intent]
               = <<"RESULT", "METHOD", "API_USAGE", "DEFINITION", "COMPARISON">>
        /\ ReturnedPattern \in TopPatterns
        /\ \A p \in TopPatterns : ReturnedPattern <= p

\* RESULT and METHOD tie for the largest score.
C30_Witness ==
    /\ pc = "detected"
    /\ TopPatterns = {1, 2}
    /\ MatchedWords(1, Lower(query)) = MatchedWords(2, Lower(query))
    /\ intent_result.intent = "RESULT"

\* C24: every item select_evidence returns has a non-empty sentence that is a
\* trimmed fragment of the text of one of the chunks it was given, and carries
\* the page and the section of that chunk.
C24_EvidenceComesFromChunks ==
    pc = "evidence" =>
        \A i \in 1..Len(evidence_list) :
            LET item == evidence_list[i]
            IN  /\ Len(item.sentence) > 0
                /\ ~IsSpace(item.sentence[1])
                /\ ~IsSpace(item.sentence[Len(item.sentence)])
                /\ \E c \in 1..Len(retrieved_chunks) :
                       /\ Contains(item.sentence, retrieved_chunks[c].text)
                       /\ item.page = retrieved_chunks[c].page
                       /\ item.section = retrieved_chunks[c].section

\* A returned sentence is shorter than the text of its chunk, which has
\* white space around it, and only one chunk of several holds it.
C24_Witness ==
    /\ pc = "evidence"
    /\ Len(retrieved_chunks) >= 2
    /\ \E i \in 1..Len(evidence_list) :
           /\ Cardinality({c \in 1..Len(retrieved_chunks) :
                   Contains(evidence_list[i].sentence, retrieved_chunks[c].text)}) = 1
           /\ \E c \in 1..Len(retrieved_chunks) :
                  /\ Contains(evidence_list[i].sentence, retrieved_chunks[c].text)
                  /\ IsSpace(retrieved_chunks[c].text[1])
                  /\ Len(evidence_list[i].sentence) < Len(retrieved_chunks[c].text)

\* The candidates of retrieve_with_intent: places in the search order.
CandidatePlaces == 1..Min(2 * top_k, Len(faiss_hits))

\* The place in the search order of the returned chunk of rank r.
ReturnedPlace(r) ==
    CHOOSE c \in CandidatePlaces : HitChunkId(c) = retrieved_chunks[r].chunk_id

\* The candidates that are not in the result.
LeftOutPlaces ==
    {c \in CandidatePlaces :
        \A r \in 1..Len(retrieved_chunks) : retrieved_chunks[r].chunk_id # HitChunkId(c)}

\* The bonus the candidate at place c of the search order gets.
CandidateBonus(c) ==
    IF intent_info.confidence > Conf(3, 10)
    THEN calculate_intent_bonus(metadata_list[faiss_hits[c].idx + 1].text,
                                metadata_list[faiss_hits[c].idx + 1].section,
                                intent_info.intent)
    ELSE 0

\* C27: a returned chunk that the search placed after a candidate left out of
\* the result has an intent_bonus strictly above the bonus of that candidate;
\* so a returned chunk that is not among the top_k nearest candidates has
\* intent_bonus > 0.
C27_OvertakingNeedsLargerBonus ==
    pc = "retrieved" =>
        \A r \in 1..Len(retrieved_chunks) :
            /\ \A c \in LeftOutPlaces :
                   c < ReturnedPlace(r)
                       => retrieved_chunks[r].intent_bonus > CandidateBonus(c)
            /\ ReturnedPlace(r) > top_k => retrieved_chunks[r].intent_bonus > 0

\* A chunk from beyond the first top_k places is returned and a nearer
\* candidate that has a bonus of its own is left out.
C27_Witness ==
    /\ pc = "retrieved"
    /\ \E r \in 1..Len(retrieved_chunks) :
           /\ ReturnedPlace(r) > top_k
           /\ \E c \in LeftOutPlaces :
                  /\ c < ReturnedPlace(r)
                  /\ CandidateBonus(c) > 0
                  /\ faiss_hits[c].distance < faiss_hits[ReturnedPlace(r)].distance

\* The sentences of all retrieved chunks that get a positive score.
ScoringSentences ==
    AllEvidence(retrieved_chunks, 1, intent_info.intent,
                intent_info.confidence > Conf(3, 10))

\* C23: compress_context runs rerank with top_k, then select_evidence with
\* limit top_k * 5, then apply_budget with token_limit, then the join, each
\* stage on the whole output of the stage before it; so num_sentences is at
\* most 5 * top_k for every token_limit.
C23_StagesInOrder ==
    [][/\ pc = "start" =>
              /\ pc' \in {"retrieved", "raised"}
              /\ Len(retrieved_chunks') <= top_k
       /\ pc = "retrieved" =>
              LET scoring == ScoringSentences
              IN  /\ pc' = "selected"
                  /\ retrieved_chunks' = retrieved_chunks
                  /\ Len(evidence_list') = Min(5 * top_k, Len(scoring))
                  /\ \A i \in 1..Len(evidence_list') :
                         \E j \in 1..Len(scoring) : evidence_list'[i] = scoring[j]
       /\ pc = "selected" =>
              /\ pc' = "budgeted"
              /\ evidence_list' = evidence_list
              /\ budget_result'.selected_evidence
                     = SubSeq(evidence_list, 1, budget_result'.num_sentences)
              /\ budget_result'.tokens_used
                     = PrefixCost(evidence_list, budget_result'.num_sentences)
              /\ budget_result'.tokens_used <= token_limit
                     \/ budget_result'.num_sentences = 0
       /\ pc = "budgeted" =>
              /\ pc' = "done"
              /\ budget_result' = budget_result
              /\ result'.selected_evidence = budget_result.selected_evidence
              /\ result'.num_sentences = Len(budget_result.selected_evidence)
              /\ result'.num_sentences <= 5 * top_k
       /\ pc \notin {"done", "raised"}]_vars

\* The limit of select_evidence cut the list and the budget kept all of it.
C23_Witness ==
    /\ pc = "done"
    /\ token_limit >= 1
    /\ Len(ScoringSentences) > 5 * top_k
    /\ result.num_sentences = 5 * top_k

\* C28: two calls of compress_context whose arguments differ only in the
\* intent label, at a confidence not above 0.3, return the same result.
C28_LowConfidenceIgnoresIntent ==
    (/\ pc = "done" /\ other.pc = "done"
     /\ intent_info.confidence <= Conf(3, 10)
     /\ other.intent_info.confidence = intent_info.confidence
     /\ other.faiss_hits = faiss_hits
     /\ other.top_k = top_k
     /\ other.token_limit = token_limit)
        => result = other.result

\* Both calls returned sentences at confidence 0.3 under two labels that give
\* different results to the same arguments at confidence 0.8.
C28_Witness ==
    /\ pc = "done" /\ other.pc = "done"
    /\ intent_info.confidence = Conf(3, 10)
    /\ other.intent_info.confidence = Conf(3, 10)
    /\ intent_info.intent # other.intent_info.intent
    /\ result.num_sentences >= 1
    /\ other.result.num_sentences >= 1
    /\ compress_context(faiss_hits, [intent_info EXCEPT !.confidence = Conf(8, 10)],
                        metadata_list, top_k, token_limit)
           # compress_context(faiss_hits,
                              [other.intent_info EXCEPT !.confidence = Conf(8, 10)],
                              metadata_list, top_k, token_limit)

\* The header detected on each page of pages_data, None when there is none.
DetectedHeaders ==
    [i \in 1..Len(pages_data) |->
        _detect_section_header(pages_data[i].text, section_patterns)]

\* C25: detect_sections labels the pages in order: a page with a detected
\* header takes the section of that header, a page without one the section of
\* the nearest earlier page with a header, and "Unknown" when no earlier page
\* has one; the output has one entry for each input page, in order, with
\* page and text unchanged.
C25_SectionsCarriedForward ==
    pc \in {"pages", "sectioned"} =>
        LET detected == DetectedHeaders
            headers(i) == {j \in 1..i : detected[j] # None}
        IN  /\ Len(pages_with_sections) <= Len(pages_data)
            /\ pc = "sectioned" => Len(pages_with_sections) = Len(pages_data)
            /\ \A i \in 1..Len(pages_with_sections) :
                   /\ pages_with_sections[i].page = pages_data[i].page
                   /\ pages_with_sections[i].text = pages_data[i].text
                   /\ pages_with_sections[i].section =
                          IF headers(i) = {} THEN "Unknown"
                          ELSE detected[CHOOSE j \in headers(i) :
                                            \A k \in headers(i) : k <= j]

\* A page before any header, a page with a header, a page that inherits it.
C25_Witness ==
    /\ pc = "sectioned"
    /\ Len(pages_with_sections) = 3
    /\ pages_with_sections[1].section = "Unknown"
    /\ DetectedHeaders[2] = "Methodology"
    /\ DetectedHeaders[3] = None
    /\ pages_with_sections[3].section = "Methodology"

\* C21: without the credential generate_answer raises before any call of
\* the model, and run_adaptive_rag passes the error to its caller: no answer
\* is returned, nothing runs after the error, the call is not tried again.
C21_MissingCredentialIsFatal ==
    api_key \in {None, ""} =>
        /\ model_calls = 0
        /\ answer = None
        /\ rag_result = <<>>
        /\ pc \notin {"answered", "returned"}
        /\ pc = "raised" =>
               /\ raised # None
               /\ RetrieveError(faiss_hits, metadata_list, top_k) = None
                      => raised = "ValueError"
               /\ ~ENABLED NextAnswer
        /\ (pc = "done" /\ ENABLED NextAnswer) => ENABLED GenerateAnswer

\* The context was built from retrieved sentences and the missing credential
\* then ended the run.
C21_Witness ==
    /\ api_key \in {None, ""}
    /\ pc = "raised"
    /\ raised = "ValueError"
    /\ result.num_sentences >= 1
    /\ model_calls = 0

====
